---- MODULE Spec2Model ----
(***************************************************************************)
(* Keyload content codec (sizeof / wrap / unwrap) over the DDML command    *)
(* layer, the Identifier codec, the io streams and the operator chains of  *)
(* the command tests.  Stream units are trytes in Keyload and the command  *)
(* tests (pb3 schema of keyload.rs) and bytes in the Identifier codec.     *)
(* The sponge is the sequence of operations applied to it; the keystream   *)
(* squeezed from it is a digest of that sequence, and mask adds the        *)
(* keystream to the low digit (base ValMod) of the value.                  *)
(* Specifications: Spec (Keyload), SpecId (Identifier), SpecIo (streams),  *)
(* SpecCmd (command tests), SpecKlCmd (Keyload and the command tests side  *)
(* by side), SpecUb (UserBuilder).                                         *)
(***************************************************************************)
EXTENDS Integers, Sequences, FiniteSets, TLC

\* ---- bounds of the model ----
MaxPsks == 3
MaxPks == 2
LinkSize == 3

\* ---- sizes of the pb3 schema, in trytes ----
NONCE_SIZE == 27
PSKID_SIZE == 27
KEY_SIZE == 81
PKID_SIZE == 27
EKEY_SIZE == 3072

\* ---- value domains ----
ValMod == 7
Junk == 0 - 1000
PskIds == {1, 2}
PkIds == {1, 2}
Keys == {3, 4}
Nonces == {5, 6}
Links == {1}
Seeds == {2}

PskOf(pskid) == 10 + pskid
SkOf(pkid) == 20 + pkid
PkidOfSk(sk) == sk - 20
\* a secret key held under an id whose public key it does not belong to
WrongSkOf(pkid) == SkOf(pkid) + 5

RECURSIVE SeqsUpTo(_, _)
SeqsUpTo(S, n) ==
    IF n = 0 THEN {<<>>}
    ELSE LET shorter == SeqsUpTo(S, n - 1)
         IN shorter \cup {Append(s, x) : s \in {t \in shorter : Len(t) = n - 1}, x \in S}

\* ---- stream of chunks: a chunk is n units carrying the value v ----
Chunk(n, v) == [n |-> n, v |-> v]

RECURSIVE Units(_)
Units(chunks) == IF chunks = <<>> THEN 0 ELSE Head(chunks).n + Units(Tail(chunks))

RECURSIVE DropUnits(_, _)
DropUnits(chunks, n) ==
    IF n = 0 \/ chunks = <<>> THEN chunks
    ELSE IF Head(chunks).n <= n THEN DropUnits(Tail(chunks), n - Head(chunks).n)
    ELSE <<Chunk(Head(chunks).n - n, Junk)>> \o Tail(chunks)

ReadUnits(chunks, n) ==
    IF n = 0 THEN 0
    ELSE IF chunks # <<>> /\ Head(chunks).n = n THEN Head(chunks).v
    ELSE Junk

\* ---- sponge ----
OpCode(op) ==
    CASE op = "join" -> 1
      [] op = "absorb" -> 2
      [] op = "mask" -> 3
      [] op = "commit" -> 4
      [] op = "ntrukem" -> 5
      [] op = "squeeze" -> 6

RECURSIVE Squeeze(_)
Squeeze(s) ==
    IF s = <<>> THEN 1
    ELSE LET last == s[Len(s)]
         IN (3 * Squeeze(SubSeq(s, 1, Len(s) - 1)) + OpCode(last[1]) + (last[2] % ValMod)) % ValMod

SpAbsorb(s, v) == Append(s, <<"absorb", v>>)
SpCommit(s) == IF s # <<>> /\ s[Len(s)][1] = "commit" THEN s ELSE Append(s, <<"commit", 0>>)
SpJoin(s, inner) == <<<<"join", inner>>>>
\* the keystream is added to the low digit of the value, so that masking is one-to-one on all values
Encr(s, p) == ((p \div ValMod) * ValMod) + (((p % ValMod) + Squeeze(s)) % ValMod)
Decr(s, c) ==
    IF c = Junk THEN Junk
    ELSE ((c \div ValMod) * ValMod) + (((c % ValMod) + ValMod - Squeeze(s)) % ValMod)
SpMask(s, p) == Append(s, <<"mask", p>>)

\* ---- Size prefix: one tryte with the number of trytes d, then d trytes ----
SIZE_TRYTES_MAX == 7
SizeTrytes(n) ==
    IF n = 0 THEN 0 ELSE IF n <= 13 THEN 1 ELSE IF n <= 364 THEN 2 ELSE IF n <= 9841 THEN 3
    ELSE IF n <= 265720 THEN 4 ELSE IF n <= 7174453 THEN 5 ELSE IF n <= 193710244 THEN 6
    ELSE SIZE_TRYTES_MAX
SizeofSize(n) == 1 + SizeTrytes(n)
SizeChunks(n) ==
    IF SizeTrytes(n) = 0 THEN <<Chunk(1, 0)>> ELSE <<Chunk(1, SizeTrytes(n)), Chunk(SizeTrytes(n), n)>>

\* ---- KEM ----
PrngGen(seed, nonce) == (seed + nonce) % 10
Encaps(pkid, key, r) == 1000 + 100 * pkid + 10 * key + r
DecapsOk(sk, ct) == ct >= 1000 /\ (ct - 1000) \div 100 = PkidOfSk(sk)
Decaps(ct) == ((ct - 1000) % 100) \div 10

\* ---- sizeof context ----
SizeofNew == [size |-> 0]
\* the size of a join is the size of the link; the store is not looked up
SJoin(ctx, st, link) == [ctx EXCEPT !.size = @ + LinkSize]
SAbsorb(ctx, n) == [ctx EXCEPT !.size = @ + n]
SAbsorbExternal(ctx) == ctx
SSkipSize(ctx, n) == [ctx EXCEPT !.size = @ + SizeofSize(n)]
SMask(ctx, n) == [ctx EXCEPT !.size = @ + n]
SCommit(ctx) == ctx
SNtrukem(ctx) == [ctx EXCEPT !.size = @ + EKEY_SIZE]
SFork(ctx, child) == child

\* ---- wrap context: sponge, slice-backed output stream ----
WrapNew(room) == [spongos |-> <<>>, buf |-> <<>>, room |-> room, err |-> ""]

WAdvance(ctx, chunk) ==
    IF chunk.n <= ctx.room
    THEN [ctx EXCEPT !.buf = Append(@, chunk), !.room = @ - chunk.n]
    ELSE [ctx EXCEPT !.err = "ShortBuffer"]

WSkipLink(ctx, link) == IF ctx.err # "" THEN ctx ELSE WAdvance(ctx, Chunk(LinkSize, link))

WJoin(ctx, st, link) ==
    LET c1 == WSkipLink(ctx, link)
    IN IF c1.err # "" THEN c1
       ELSE IF link \notin DOMAIN st THEN [c1 EXCEPT !.err = "LinkNotFound"]
       ELSE [c1 EXCEPT !.spongos = SpJoin(@, st[link])]

WAbsorb(ctx, n, v) ==
    IF ctx.err # "" THEN ctx
    ELSE LET c1 == WAdvance(ctx, Chunk(n, v))
         IN IF c1.err # "" THEN c1 ELSE [c1 EXCEPT !.spongos = SpAbsorb(@, v)]

WAbsorbExternal(ctx, v) ==
    IF ctx.err # "" THEN ctx ELSE [ctx EXCEPT !.spongos = SpAbsorb(@, v)]

WSkipSize(ctx, n) ==
    IF ctx.err # "" THEN ctx
    ELSE IF SizeofSize(n) > ctx.room THEN [ctx EXCEPT !.err = "ShortBuffer"]
    ELSE [ctx EXCEPT !.buf = @ \o SizeChunks(n), !.room = @ - SizeofSize(n)]

WMask(ctx, n, v) ==
    IF ctx.err # "" THEN ctx
    ELSE LET c1 == WAdvance(ctx, Chunk(n, Encr(ctx.spongos, v)))
         IN IF c1.err # "" THEN c1 ELSE [c1 EXCEPT !.spongos = SpMask(@, v)]

WCommit(ctx) == IF ctx.err # "" THEN ctx ELSE [ctx EXCEPT !.spongos = SpCommit(@)]

WNtrukem(ctx, pkid, seed, nonce, key) ==
    IF ctx.err # "" THEN ctx
    ELSE LET ct == Encaps(pkid, key, PrngGen(seed, nonce))
             c1 == WAdvance(ctx, Chunk(EKEY_SIZE, ct))
         IN IF c1.err # "" THEN c1
            ELSE [c1 EXCEPT !.spongos = SpMask(Append(@, <<"ntrukem", ct>>), key)]

\* fork: the body ran on a copy of the sponge; the parent keeps its own, the stream is shared
WFork(ctx, child) == IF ctx.err # "" THEN ctx ELSE [child EXCEPT !.spongos = ctx.spongos]

\* ---- Keyload: ContentWrap::sizeof ----
\* the store sizeof joins against: it holds no link
EmptyLinkStore == [l \in {} |-> 0]

\* mutant: the join looks the link up in the store it is given and sizeof stops when it is missing
KlSizeofHead_JoinLooksUp(ctx, self) ==
    IF self.link \in DOMAIN EmptyLinkStore
    THEN SSkipSize(SAbsorb(SJoin(ctx, EmptyLinkStore, self.link), NONCE_SIZE), Len(self.psks))
    ELSE ctx

KlSizeofHead(ctx, self) ==
    SSkipSize(SAbsorb(SJoin(ctx, EmptyLinkStore, self.link), NONCE_SIZE), Len(self.psks))

KlSizeofPskEntry(ctx, self) ==
    SFork(ctx, SMask(SCommit(SAbsorbExternal(SMask(ctx, PSKID_SIZE))), KEY_SIZE))

KlSizeofSkipPks(ctx, self) == SSkipSize(ctx, Len(self.ntru_pks))

KlSizeofPkEntry(ctx, self) == SFork(ctx, SNtrukem(SMask(ctx, PKID_SIZE)))

KlSizeofTail(ctx, self) == SCommit(SAbsorbExternal(ctx))

RECURSIVE KlSizeofPsks(_, _, _)
KlSizeofPsks(ctx, self, k) ==
    IF k > Len(self.psks) THEN ctx ELSE KlSizeofPsks(KlSizeofPskEntry(ctx, self), self, k + 1)

RECURSIVE KlSizeofPks(_, _, _)
KlSizeofPks(ctx, self, k) ==
    IF k > Len(self.ntru_pks) THEN ctx ELSE KlSizeofPks(KlSizeofPkEntry(ctx, self), self, k + 1)

KlSizeof(self) ==
    KlSizeofTail(
        KlSizeofPks(KlSizeofSkipPks(KlSizeofPsks(KlSizeofHead(SizeofNew, self), self, 1), self), self, 1),
        self).size

\* ---- Keyload: ContentWrap::wrap ----
KlWrapHead(ctx, st, self) ==
    WSkipSize(WAbsorb(WJoin(ctx, st, self.link), NONCE_SIZE, self.nonce), Len(self.psks))

\* mutant: the pskid is absorbed, in the clear, instead of masked
KlWrapPskBody_AbsorbId(ctx, self, k) ==
    LET pskid == self.psks[k][1]
        psk == self.psks[k][2]
    IN WMask(WCommit(WAbsorbExternal(WAbsorb(ctx, PSKID_SIZE, pskid), psk)), KEY_SIZE, self.key)

KlWrapPskBody(ctx, self, k) ==
    LET pskid == self.psks[k][1]
        psk == self.psks[k][2]
    IN WMask(WCommit(WAbsorbExternal(WMask(ctx, PSKID_SIZE, pskid), psk)), KEY_SIZE, self.key)

\* mutant: the body runs on the parent context, without fork
KlWrapPskEntry_NoFork(ctx, self, k) == KlWrapPskBody(ctx, self, k)

KlWrapPskEntry(ctx, self, k) == WFork(ctx, KlWrapPskBody(ctx, self, k))

KlWrapSkipPks(ctx, self) == WSkipSize(ctx, Len(self.ntru_pks))

KlWrapPkBody(ctx, self, k) ==
    LET pkid == self.ntru_pks[k]
    IN WNtrukem(WMask(ctx, PKID_SIZE, pkid), pkid, self.prng, self.nonce, self.key)

\* mutant: every entry encapsulates under the first public key of the list
KlWrapPkEntry_FirstPk(ctx, self, k) ==
    LET pkid == self.ntru_pks[k]
    IN WFork(ctx, WNtrukem(WMask(ctx, PKID_SIZE, pkid), self.ntru_pks[1], self.prng, self.nonce,
                           self.key))

KlWrapPkEntry(ctx, self, k) == WFork(ctx, KlWrapPkBody(ctx, self, k))

\* mutant: the key is absorbed from the stream, as a field of the message
KlWrapTail_KeyOnWire(ctx, self) == WCommit(WAbsorb(ctx, KEY_SIZE, self.key))

KlWrapTail(ctx, self) == WCommit(WAbsorbExternal(ctx, self.key))

RECURSIVE KlWrapPsks(_, _, _)
KlWrapPsks(ctx, self, k) ==
    IF k > Len(self.psks) THEN ctx ELSE KlWrapPsks(KlWrapPskEntry(ctx, self, k), self, k + 1)

RECURSIVE KlWrapPks(_, _, _)
KlWrapPks(ctx, self, k) ==
    IF k > Len(self.ntru_pks) THEN ctx ELSE KlWrapPks(KlWrapPkEntry(ctx, self, k), self, k + 1)

KlWrap(self, st) ==
    KlWrapTail(
        KlWrapPks(KlWrapSkipPks(KlWrapPsks(KlWrapHead(WrapNew(KlSizeof(self)), st, self), self, 1), self),
                  self, 1),
        self)

\* ---- unwrap context and ContentUnwrap fields and locals, in one record ----
UnwrapNew(chunks) ==
    [spongos |-> <<>>, stream |-> chunks, err |-> "",
     link |-> 0, nonce |-> 0, key |-> 0,
     repeated_psks |-> 0, repeated_ntru_pks |-> 0, pskid |-> 0, ntru_pkid |-> 0,
     key_found |-> FALSE, calls |-> <<>>, trail |-> <<>>]

UAdvance(u, n) ==
    IF n <= Units(u.stream)
    THEN [u EXCEPT !.stream = DropUnits(@, n)]
    ELSE [u EXCEPT !.err = "ShortBuffer"]

USkipInto(u, n, field) ==
    IF u.err # "" THEN u
    ELSE LET u1 == UAdvance(u, n)
         IN IF u1.err # "" THEN u1 ELSE [u1 EXCEPT ![field] = ReadUnits(u.stream, n)]

UJoin(u, st) ==
    LET u1 == USkipInto(u, LinkSize, "link")
    IN IF u1.err # "" THEN u1
       ELSE IF u1.link \notin DOMAIN st THEN [u1 EXCEPT !.err = "LinkNotFound"]
       ELSE [u1 EXCEPT !.spongos = SpJoin(@, st[u1.link])]

UAbsorb(u, n, field) ==
    LET u1 == USkipInto(u, n, field)
    IN IF u1.err # "" THEN u1 ELSE [u1 EXCEPT !.spongos = SpAbsorb(@, u1[field])]

UAbsorbExternal(u, v) == IF u.err # "" THEN u ELSE [u EXCEPT !.spongos = SpAbsorb(@, v)]

USkipSize(u, field) ==
    LET u1 == USkipInto(u, 1, field)
    IN IF u1.err # "" THEN u1
       ELSE IF u1[field] \notin 0 .. SIZE_TRYTES_MAX THEN [u1 EXCEPT !.err = "BadSize", ![field] = 0]
       ELSE IF u1[field] = 0 THEN u1
       ELSE LET u2 == USkipInto(u1, u1[field], field)
            IN IF u2.err = "" /\ u2[field] = Junk THEN [u2 EXCEPT !.err = "BadSize", ![field] = 0]
               ELSE u2

UMask(u, n, field) ==
    IF u.err # "" THEN u
    ELSE LET u1 == UAdvance(u, n)
             p == Decr(u.spongos, ReadUnits(u.stream, n))
         IN IF u1.err # "" THEN u1 ELSE [u1 EXCEPT !.spongos = SpMask(@, p), ![field] = p]

UCommit(u) == IF u.err # "" THEN u ELSE [u EXCEPT !.spongos = SpCommit(@)]

UDrop(u, n) == IF u.err # "" THEN u ELSE UAdvance(u, n)

UGuard(u, cond, msg) == IF u.err # "" \/ cond THEN u ELSE [u EXCEPT !.err = msg]

UNtrukem(u, sk, field) ==
    IF u.err # "" THEN u
    ELSE LET u1 == UAdvance(u, EKEY_SIZE)
             ct == ReadUnits(u.stream, EKEY_SIZE)
         IN IF u1.err # "" THEN u1
            ELSE IF ~DecapsOk(sk, ct) THEN [u1 EXCEPT !.err = "NtruDecapFailed"]
            ELSE [u1 EXCEPT !.spongos = SpMask(Append(@, <<"ntrukem", ct>>), Decaps(ct)),
                            ![field] = Decaps(ct)]

UFork(u, child) == IF u.err # "" THEN u ELSE [child EXCEPT !.spongos = u.spongos]

\* history: a lookup callback invocation, and the branch an entry took
Called(u, which, id) == [u EXCEPT !.calls = Append(@, <<which, id>>)]
Took(u, which, branch) == IF u.err # "" THEN u ELSE [u EXCEPT !.trail = Append(@, <<which, branch>>)]
Found(u) == IF u.err # "" THEN u ELSE [u EXCEPT !.key_found = TRUE]

\* ---- Keyload: ContentUnwrap::unwrap ----
\* mutant: the nonce is absorbed before the join
KlUnwrapHead_NonceFirst(u, st) ==
    USkipSize(UJoin(UAbsorb(u, NONCE_SIZE, "nonce"), st), "repeated_psks")

KlUnwrapHead(u, st) ==
    USkipSize(UAbsorb(UJoin(u, st), NONCE_SIZE, "nonce"), "repeated_psks")

\* mutant: the psk is not absorbed before the key is unmasked
KlUnwrapPskBody_NoPsk(u, lk_psk) ==
    LET u1 == UMask(u, PSKID_SIZE, "pskid")
        u2 == Called(u1, "psk", u1.pskid)
    IN IF u1.err # "" THEN u1
       ELSE IF u1.pskid \in DOMAIN lk_psk
       THEN Took(Found(UMask(UCommit(u2), KEY_SIZE, "key")), "psk", "match")
       ELSE Took(UDrop(u2, 0 + 0 + KEY_SIZE), "psk", "miss")

\* mutant: a missed entry unmasks its key field into the key instead of dropping it
KlUnwrapPskBody_MissUnmasks(u, lk_psk) ==
    LET u1 == UMask(u, PSKID_SIZE, "pskid")
        u2 == Called(u1, "psk", u1.pskid)
    IN IF u1.err # "" THEN u1
       ELSE IF u1.pskid \in DOMAIN lk_psk
       THEN Took(Found(UMask(UCommit(UAbsorbExternal(u2, lk_psk[u1.pskid])), KEY_SIZE, "key")),
                 "psk", "match")
       ELSE Took(UMask(u2, KEY_SIZE, "key"), "psk", "miss")

KlUnwrapPskBody(u, lk_psk) ==
    LET u1 == UMask(u, PSKID_SIZE, "pskid")
        u2 == Called(u1, "psk", u1.pskid)
    IN IF u1.err # "" THEN u1
       ELSE IF u1.pskid \in DOMAIN lk_psk
       THEN Took(Found(UMask(UCommit(UAbsorbExternal(u2, lk_psk[u1.pskid])), KEY_SIZE, "key")),
                 "psk", "match")
       ELSE Took(UDrop(u2, 0 + 0 + KEY_SIZE), "psk", "miss")

\* mutant: the drop outside the fork uses the in-fork remainder KEY_SIZE
KlUnwrapPskEntry_StaleDrop(u, lk_psk) ==
    IF ~u.key_found
    THEN UFork(u, KlUnwrapPskBody(u, lk_psk))
    ELSE Took(UDrop(u, 0 + 0 + KEY_SIZE), "psk", "drop")

\* mutant: the body runs on the parent context, without fork
KlUnwrapPskEntry_NoFork(u, lk_psk) ==
    IF ~u.key_found
    THEN KlUnwrapPskBody(u, lk_psk)
    ELSE Took(UDrop(u, PSKID_SIZE + 0 + 0 + KEY_SIZE), "psk", "drop")

\* mutant: key_found is not consulted, every entry is forked and looked up
KlUnwrapPskEntry_AlwaysFork(u, lk_psk) == UFork(u, KlUnwrapPskBody(u, lk_psk))

KlUnwrapPskEntry(u, lk_psk) ==
    IF ~u.key_found
    THEN UFork(u, KlUnwrapPskBody(u, lk_psk))
    ELSE Took(UDrop(u, PSKID_SIZE + 0 + 0 + KEY_SIZE), "psk", "drop")

KlUnwrapSkipPks(u) == USkipSize(u, "repeated_ntru_pks")

\* mutant: a failed decapsulation is treated as a miss and the scan goes on
KlUnwrapPkBody_TryNext(u, lk_sk) ==
    LET u1 == UMask(u, PKID_SIZE, "ntru_pkid")
        u2 == Called(u1, "pk", u1.ntru_pkid)
        u3 == IF u1.ntru_pkid \in DOMAIN lk_sk THEN UNtrukem(u2, lk_sk[u1.ntru_pkid], "key") ELSE u2
    IN IF u1.err # "" THEN u1
       ELSE IF u1.ntru_pkid \in DOMAIN lk_sk /\ u3.err = "NtruDecapFailed"
       THEN Took([u3 EXCEPT !.err = ""], "pk", "miss")
       ELSE IF u1.ntru_pkid \in DOMAIN lk_sk
       THEN Took(Found(u3), "pk", "match")
       ELSE Took(UDrop(u2, EKEY_SIZE), "pk", "miss")

KlUnwrapPkBody(u, lk_sk) ==
    LET u1 == UMask(u, PKID_SIZE, "ntru_pkid")
        u2 == Called(u1, "pk", u1.ntru_pkid)
    IN IF u1.err # "" THEN u1
       ELSE IF u1.ntru_pkid \in DOMAIN lk_sk
       THEN Took(Found(UNtrukem(u2, lk_sk[u1.ntru_pkid], "key")), "pk", "match")
       ELSE Took(UDrop(u2, EKEY_SIZE), "pk", "miss")

\* mutant: the drop outside the fork uses the in-fork remainder EKEY_SIZE
KlUnwrapPkEntry_StaleDrop(u, lk_sk) ==
    IF ~u.key_found
    THEN UFork(u, KlUnwrapPkBody(u, lk_sk))
    ELSE Took(UDrop(u, EKEY_SIZE), "pk", "drop")

\* mutant: key_found is not consulted, every entry is forked and looked up
KlUnwrapPkEntry_AlwaysFork(u, lk_sk) == UFork(u, KlUnwrapPkBody(u, lk_sk))

\* mutant: the public-key loop consults only its own matches, not a key found by the PSK loop
KlUnwrapPkEntry_OwnFlag(u, lk_sk) ==
    IF \A k \in 1..Len(u.trail) : u.trail[k] # <<"pk", "match">>
    THEN UFork(u, KlUnwrapPkBody(u, lk_sk))
    ELSE Took(UDrop(u, PKID_SIZE + EKEY_SIZE), "pk", "drop")

KlUnwrapPkEntry(u, lk_sk) ==
    IF ~u.key_found
    THEN UFork(u, KlUnwrapPkBody(u, lk_sk))
    ELSE Took(UDrop(u, PKID_SIZE + EKEY_SIZE), "pk", "drop")

\* mutant: no guard
KlUnwrapTail_NoGuard(u) == UCommit(UAbsorbExternal(u, u.key))

\* mutant: the key is not absorbed after the loops
KlUnwrapTail_NoAbsorb(u) == UCommit(UGuard(u, u.key_found, "Key not found"))

\* mutant: the guard tests the negated flag
KlUnwrapTail_NegGuard(u) ==
    UCommit(UAbsorbExternal(UGuard(u, ~u.key_found, "Key not found"), u.key))

KlUnwrapTail(u) ==
    UCommit(UAbsorbExternal(UGuard(u, u.key_found, "Key not found"), u.key))

RECURSIVE KlUnwrapPsks(_, _, _)
KlUnwrapPsks(u, lk_psk, k) ==
    IF k > u.repeated_psks \/ u.err # "" THEN u
    ELSE KlUnwrapPsks(KlUnwrapPskEntry(u, lk_psk), lk_psk, k + 1)

RECURSIVE KlUnwrapPks(_, _, _)
KlUnwrapPks(u, lk_sk, k) ==
    IF k > u.repeated_ntru_pks \/ u.err # "" THEN u
    ELSE KlUnwrapPks(KlUnwrapPkEntry(u, lk_sk), lk_sk, k + 1)

KlUnwrap(chunks, st, lk_psk, lk_sk) ==
    KlUnwrapTail(
        KlUnwrapPks(KlUnwrapSkipPks(KlUnwrapPsks(KlUnwrapHead(UnwrapNew(chunks), st), lk_psk, 1)),
                    lk_sk, 1))

\* ---- Identifier codec (identifier.rs): units are bytes ----
UINT8_SIZE == 1
PK_SIZE == 32
PSKID_BYTES == 17

EdPubKey(pk) == [tag |-> "EdPubKey", v |-> pk]
PskId(pskid) == [tag |-> "PskId", v |-> pskid]
IdDefault == EdPubKey(0)

IdSizeof(id, ctx) ==
    CASE id.tag = "EdPubKey" -> SMask(SMask(ctx, UINT8_SIZE), PK_SIZE)
      [] id.tag = "PskId" -> SMask(SMask(ctx, UINT8_SIZE), PSKID_BYTES)

\* mutant: the PskId variant is written under the tag of the public-key variant
IdWrap_SameTag(id, ctx) ==
    CASE id.tag = "EdPubKey" -> WMask(WMask(ctx, UINT8_SIZE, 0), PK_SIZE, id.v)
      [] id.tag = "PskId" -> WMask(WMask(ctx, UINT8_SIZE, 0), PSKID_BYTES, id.v)

IdWrap(id, ctx) ==
    CASE id.tag = "EdPubKey" -> WMask(WMask(ctx, UINT8_SIZE, 0), PK_SIZE, id.v)
      [] id.tag = "PskId" -> WMask(WMask(ctx, UINT8_SIZE, 1), PSKID_BYTES, id.v)

IdUnwrapCtx(sp, chunks) ==
    [spongos |-> sp, stream |-> chunks, err |-> "", oneof |-> 0, pk |-> 0, pskid |-> 0,
     id |-> IdDefault]

\* mutant: every tag other than 0 selects the PskId variant
IdUnwrapNew_OpenOneof(u) ==
    LET u1 == UMask(u, UINT8_SIZE, "oneof")
        pk == UMask(u1, PK_SIZE, "pk")
        pskid == UMask(u1, PSKID_BYTES, "pskid")
    IN IF u1.err # "" THEN u1
       ELSE IF u1.oneof = 0
       THEN IF pk.err # "" THEN pk ELSE [pk EXCEPT !.id = EdPubKey(pk.pk)]
       ELSE IF pskid.err # "" THEN pskid ELSE [pskid EXCEPT !.id = PskId(pskid.pskid)]

IdUnwrapNew(u) ==
    LET u1 == UMask(u, UINT8_SIZE, "oneof")
        pk == UMask(u1, PK_SIZE, "pk")
        pskid == UMask(u1, PSKID_BYTES, "pskid")
    IN IF u1.err # "" THEN u1
       ELSE IF u1.oneof = 0
       THEN IF pk.err # "" THEN pk ELSE [pk EXCEPT !.id = EdPubKey(pk.pk)]
       ELSE IF u1.oneof = 1
       THEN IF pskid.err # "" THEN pskid ELSE [pskid EXCEPT !.id = PskId(pskid.pskid)]
       ELSE [u1 EXCEPT !.err = "BadOneof"]

\* mutant: the target is assigned whatever unwrap_new left, also when it failed
IdUnwrap_AssignAlways(self_id, u) ==
    LET r == IdUnwrapNew(u)
    IN [ctx |-> r, self |-> r.id]

\* unwrap into an existing Identifier: it is overwritten only when unwrap_new succeeds
IdUnwrap(self_id, u) ==
    LET r == IdUnwrapNew(u)
    IN [ctx |-> r, self |-> IF r.err # "" THEN self_id ELSE r.id]

IdcIdle ==
    [pc |-> "idle", id |-> IdDefault, sp |-> <<>>, usp |-> <<>>, size |-> 0, forged |-> FALSE,
     w |-> WrapNew(0), wire |-> <<>>, u |-> IdUnwrapCtx(<<>>, <<>>), out |-> IdDefault,
     prev |-> IdDefault]

\* ---- io streams (io.rs): a slice is the sequence of its remaining units ----
SliceKinds == {"TbitSliceMut", "TbitSlice"}
NoStreamKinds == {"NoOStream", "NoIStream"}

\* mutant: a request for exactly the remaining size is refused
SliceTryAdvance_Strict(rem, n) ==
    IF n < Len(rem)
    THEN [res |-> "ok", win |-> SubSeq(rem, 1, n), rem |-> SubSeq(rem, n + 1, Len(rem))]
    ELSE [res |-> "err", win |-> <<>>, rem |-> rem]

\* mutant: a refused request drains what remains
SliceTryAdvance_DrainOnFail(rem, n) ==
    IF n <= Len(rem)
    THEN [res |-> "ok", win |-> SubSeq(rem, 1, n), rem |-> SubSeq(rem, n + 1, Len(rem))]
    ELSE [res |-> "err", win |-> <<>>, rem |-> <<>>]

SliceTryAdvance(rem, n) ==
    IF n <= Len(rem)
    THEN [res |-> "ok", win |-> SubSeq(rem, 1, n), rem |-> SubSeq(rem, n + 1, Len(rem))]
    ELSE [res |-> "err", win |-> <<>>, rem |-> rem]

\* mutant: an empty request succeeds
NoStreamTryAdvance_EmptyOk(rem, n) ==
    IF n = 0 THEN [res |-> "ok", win |-> <<>>, rem |-> rem]
    ELSE [res |-> "err", win |-> <<>>, rem |-> rem]

NoStreamTryAdvance(rem, n) == [res |-> "err", win |-> <<>>, rem |-> rem]

TryAdvance(kind, rem, n) ==
    IF kind \in SliceKinds THEN SliceTryAdvance(rem, n) ELSE NoStreamTryAdvance(rem, n)

\* the trait's default advance: try_advance, assert!(r.is_ok()), r.unwrap()
DefaultAdvance(r) == IF r.res = "ok" THEN r ELSE [r EXCEPT !.res = "panic"]

\* assert!(false, ..) comes first
NoStreamAdvance(rem, n) == [res |-> "panic", win |-> <<>>, rem |-> rem]

Advance(kind, rem, n) ==
    IF kind \in SliceKinds THEN DefaultAdvance(TryAdvance(kind, rem, n))
    ELSE NoStreamAdvance(rem, n)

\* mutant: commit flushes the window that remains
StreamCommit_Flush(kind, rem) == [res |-> "ok", win |-> <<>>, rem |-> <<>>]

StreamCommit(kind, rem) == [res |-> "ok", win |-> <<>>, rem |-> rem]

IosIdle == [pc |-> "idle", kind |-> "NoOStream", buf |-> <<>>, rem |-> <<>>, hist |-> <<>>]

\* ---- DDML values of the command tests (test.rs): Trint3, Size, Trytes, NTrytes ----
MIN_TRINT3 == 0 - 13
MAX_TRINT3 == 13
\* the largest Size the model's integers can mask
SIZE_MAX == 2147483639
TAG_SIZE == 27

Trint3(t) == [type |-> "Trint3", n |-> 1, v |-> t]
Size(n) == [type |-> "Size", n |-> SizeofSize(n), v |-> n]
Trytes(n, v) == [type |-> "Trytes", n |-> n, v |-> v]
NTrytes(n, v) == [type |-> "NTrytes", n |-> n, v |-> v]

\* the fields a value puts on the wire
Fields(val) ==
    CASE val.type = "Trint3" -> <<Chunk(1, val.v)>>
      [] val.type = "Size" -> SizeChunks(val.v)
      [] val.type = "Trytes" ->
             SizeChunks(val.n) \o (IF val.n = 0 THEN <<>> ELSE <<Chunk(val.n, val.v)>>)
      [] val.type = "NTrytes" -> IF val.n = 0 THEN <<>> ELSE <<Chunk(val.n, val.v)>>

SAbsorbValue(ctx, val) == SAbsorb(ctx, Units(Fields(val)))
SMaskValue(ctx, val) == SMask(ctx, Units(Fields(val)))
\* a value passed by value is forwarded to the by-reference implementation
SAbsorbByValue(ctx, val) == SAbsorbValue(ctx, val)
SMaskByValue(ctx, val) == SMaskValue(ctx, val)
SSqueezeExternal(ctx) == ctx
SSqueezeMac(ctx, n) == [ctx EXCEPT !.size = @ + n]

RECURSIVE WAbsorbFields(_, _)
WAbsorbFields(ctx, fs) ==
    IF fs = <<>> THEN ctx ELSE WAbsorbFields(WAbsorb(ctx, Head(fs).n, Head(fs).v), Tail(fs))
RECURSIVE WMaskFields(_, _)
WMaskFields(ctx, fs) ==
    IF fs = <<>> THEN ctx ELSE WMaskFields(WMask(ctx, Head(fs).n, Head(fs).v), Tail(fs))
WAbsorbValue(ctx, val) == WAbsorbFields(ctx, Fields(val))
WMaskValue(ctx, val) == WMaskFields(ctx, Fields(val))

\* n units squeezed from the sponge
SqueezeOut(s, n) == IF n = 0 THEN 0 ELSE Squeeze(s)
SpSqueeze(s, n) == Append(s, <<"squeeze", n>>)

WSqueezeExternal(ctx, n, field) ==
    IF ctx.err # "" THEN ctx
    ELSE [ctx EXCEPT ![field] = SqueezeOut(ctx.spongos, n), !.spongos = SpSqueeze(@, n)]

WSqueezeMac(ctx, n) ==
    IF ctx.err # "" THEN ctx
    ELSE IF n = 0 THEN [ctx EXCEPT !.spongos = SpSqueeze(@, n)]
    ELSE LET c1 == WAdvance(ctx, Chunk(n, SqueezeOut(ctx.spongos, n)))
         IN IF c1.err # "" THEN c1 ELSE [c1 EXCEPT !.spongos = SpSqueeze(@, n)]

UPrim(u, op, n, field) == IF op = "absorb" THEN UAbsorb(u, n, field) ELSE UMask(u, n, field)

\* Size: one tryte with the number of trytes d, then d trytes
USize(u, op, field) ==
    LET u1 == UPrim(u, op, 1, field)
    IN IF u1.err # "" THEN u1
       ELSE IF u1[field] \notin 0 .. SIZE_TRYTES_MAX THEN [u1 EXCEPT !.err = "BadSize", ![field] = 0]
       ELSE IF u1[field] = 0 THEN u1
       ELSE LET u2 == UPrim(u1, op, u1[field], field)
            IN IF u2.err = "" /\ u2[field] = Junk
               THEN [u2 EXCEPT !.err = "BadSize", ![field] = 0]
               ELSE u2

\* reads a value of the given type; a Trytes value brings its length, an NTrytes target has it
UValue(u, op, type, n, fn, fv) ==
    CASE type = "Trint3" -> UPrim(u, op, 1, fv)
      [] type = "Size" -> USize(u, op, fv)
      [] type = "Trytes" ->
             LET u1 == USize(u, op, fn)
             IN IF u1.err # "" \/ u1[fn] = 0 THEN u1 ELSE UPrim(u1, op, u1[fn], fv)
      [] type = "NTrytes" -> IF n = 0 THEN u ELSE UPrim(u, op, n, fv)

USqueezeExternal(u, n, field) ==
    IF u.err # "" THEN u
    ELSE [u EXCEPT ![field] = SqueezeOut(u.spongos, n), !.spongos = SpSqueeze(@, n)]

USqueezeMac(u, n) ==
    IF u.err # "" THEN u
    ELSE IF n = 0 THEN [u EXCEPT !.spongos = SpSqueeze(@, n)]
    ELSE LET u1 == UAdvance(u, n)
         IN IF u1.err # "" THEN u1
            ELSE IF ReadUnits(u.stream, n) # SqueezeOut(u.spongos, n) THEN [u1 EXCEPT !.err = "BadMac"]
            ELSE [u1 EXCEPT !.spongos = SpSqueeze(@, n)]

\* ---- the operator sequences of the command tests (test.rs) ----
TRITS_PER_TRYTE == 3
CmdWrapNew(room) ==
    [spongos |-> <<>>, buf |-> <<>>, room |-> room, err |-> "", ents |-> 0, tag |-> 0]
CmdUnwrapNew(chunks) ==
    [spongos |-> <<>>, stream |-> chunks, err |-> "", a_n |-> 0, a_v |-> 0, na_v |-> 0,
     m_n |-> 0, m_v |-> 0, nm_v |-> 0, ents |-> 0, tag |-> 0, key |-> 0]

\* one operator call: val is the value given (wrap, sizeof) or the target read into (unwrap:
\* its type, and for NTrytes its length, fn and fv the names of the target), n a length
Op(op, val, n, fn, fv) == [op |-> op, val |-> val, n |-> n, fn |-> fn, fv |-> fv]
NoVal == [type |-> "none", n |-> 0, v |-> 0]
OpCommit == Op("commit", NoVal, 0, "", "")
OpSqueezeTag == Op("squeeze_ext", NoVal, TAG_SIZE, "", "tag")

\* absorb_mask_trint3 and absorb_mask_size
AmSizeofProgram(x) == <<Op("absorb", x, 0, "", ""), Op("mask", x, 0, "", "")>>
AmWrapProgram(x) ==
    <<OpCommit, Op("absorb", x, 0, "", ""), Op("mask", x, 0, "", ""), OpCommit, OpSqueezeTag>>

\* mutant: the second value is read with absorb where wrap masked it
AmUnwrapProgram_AbsorbTwice(x) ==
    <<OpCommit, Op("absorb", [x EXCEPT !.v = 0], 0, "a_n", "a_v"),
      Op("absorb", [x EXCEPT !.v = 0], 0, "m_n", "m_v"), OpCommit, OpSqueezeTag>>

AmUnwrapProgram(x) ==
    <<OpCommit, Op("absorb", [x EXCEPT !.v = 0], 0, "a_n", "a_v"),
      Op("mask", [x EXCEPT !.v = 0], 0, "m_n", "m_v"), OpCommit, OpSqueezeTag>>

\* absorb_mask_squeeze_trytes_mac; t holds ta, nta, enta, tm, ntm and the length n
\* mutant: the size computation leaves the Mac out
TmSizeofProgram_NoMac(t) ==
    <<OpCommit, Op("absorb", t.ta, 0, "", ""), Op("absorb", t.nta, 0, "", ""),
      Op("absorb_ext", t.enta, 0, "", ""), OpCommit,
      Op("mask", t.tm, 0, "", ""), Op("mask", t.ntm, 0, "", ""), OpCommit,
      Op("squeeze_ext", NoVal, t.n, "", "ents"),
      OpCommit, OpSqueezeTag>>

TmSizeofProgram(t) ==
    <<OpCommit, Op("absorb", t.ta, 0, "", ""), Op("absorb", t.nta, 0, "", ""),
      Op("absorb_ext", t.enta, 0, "", ""), OpCommit,
      Op("mask", t.tm, 0, "", ""), Op("mask", t.ntm, 0, "", ""), OpCommit,
      Op("squeeze_ext", NoVal, t.n, "", "ents"), Op("squeeze_mac", NoVal, t.n, "", ""),
      OpCommit, OpSqueezeTag>>

TmWrapProgram(t) ==
    <<OpCommit, Op("absorb", t.ta, 0, "", ""), Op("absorb", t.nta, 0, "", ""),
      Op("absorb_ext", t.enta, 0, "", ""), OpCommit,
      Op("mask", t.tm, 0, "", ""), Op("mask", t.ntm, 0, "", ""), OpCommit,
      Op("squeeze_ext", NoVal, t.n, "", "ents"), Op("squeeze_mac", NoVal, t.n, "", ""),
      OpCommit, OpSqueezeTag>>

TmUnwrapProgram(t) ==
    <<OpCommit, Op("absorb", Trytes(0, 0), 0, "a_n", "a_v"),
      Op("absorb", NTrytes(t.n, 0), 0, "a_n", "na_v"),
      Op("absorb_ext", t.enta, 0, "", ""), OpCommit,
      Op("mask", Trytes(0, 0), 0, "m_n", "m_v"), Op("mask", NTrytes(t.n, 0), 0, "m_n", "nm_v"),
      OpCommit,
      Op("squeeze_ext", NoVal, t.n, "", "ents"), Op("squeeze_mac", NoVal, t.n, "", ""),
      OpCommit, OpSqueezeTag>>

\* ntrukem_caps; kem holds the key pair (sk, pkid), the PRNG seed, the nonce, payload and key
OpNtrukem(kem, fv) ==
    [op |-> "ntrukem", val |-> kem.key, n |-> 0, fn |-> "", fv |-> fv,
     pkid |-> kem.pkid, sk |-> kem.sk, seed |-> kem.seed, nonce |-> kem.nonce]

\* mutant: the size computation leaves the encapsulation out
KemSizeofProgram_NoKem(kem) == <<Op("absorb", kem.payload, 0, "", ""), OpCommit>>

KemSizeofProgram(kem) == <<Op("absorb", kem.payload, 0, "", ""), OpCommit, OpNtrukem(kem, "")>>
KemWrapProgram(kem) == <<Op("absorb", kem.payload, 0, "", ""), OpCommit, OpNtrukem(kem, "")>>
KemUnwrapProgram(kem) ==
    <<Op("absorb", Trytes(0, 0), 0, "a_n", "a_v"), OpCommit, OpNtrukem(kem, "key")>>

\* the three contexts' implementations of one operator call
SApply(ctx, o) ==
    CASE o.op = "commit" -> SCommit(ctx)
      [] o.op = "absorb" -> SAbsorbValue(ctx, o.val)
      [] o.op = "absorb_ext" -> SAbsorbExternal(ctx)
      [] o.op = "mask" -> SMaskValue(ctx, o.val)
      [] o.op = "squeeze_ext" -> SSqueezeExternal(ctx)
      [] o.op = "squeeze_mac" -> SSqueezeMac(ctx, o.n)
      [] o.op = "ntrukem" -> SNtrukem(ctx)

SApplyByValue(ctx, o) ==
    CASE o.op = "absorb" -> SAbsorbByValue(ctx, o.val)
      [] o.op = "mask" -> SMaskByValue(ctx, o.val)
      [] OTHER -> SApply(ctx, o)

WApply(ctx, o) ==
    CASE o.op = "commit" -> WCommit(ctx)
      [] o.op = "absorb" -> WAbsorbValue(ctx, o.val)
      [] o.op = "absorb_ext" -> WAbsorbExternal(ctx, o.val.v)
      [] o.op = "mask" -> WMaskValue(ctx, o.val)
      [] o.op = "squeeze_ext" -> WSqueezeExternal(ctx, o.n, o.fv)
      [] o.op = "squeeze_mac" -> WSqueezeMac(ctx, o.n)
      [] o.op = "ntrukem" -> WNtrukem(ctx, o.pkid, o.seed, o.nonce, o.val.v)

UApply(u, o) ==
    CASE o.op = "commit" -> UCommit(u)
      [] o.op = "absorb" -> UValue(u, "absorb", o.val.type, o.val.n, o.fn, o.fv)
      [] o.op = "absorb_ext" -> UAbsorbExternal(u, o.val.v)
      [] o.op = "mask" -> UValue(u, "mask", o.val.type, o.val.n, o.fn, o.fv)
      [] o.op = "squeeze_ext" -> USqueezeExternal(u, o.n, o.fv)
      [] o.op = "squeeze_mac" -> USqueezeMac(u, o.n)
      [] o.op = "ntrukem" -> UNtrukem(u, o.sk, o.fv)

NoTrytes == [n |-> 0, ta |-> Trytes(0, 0), nta |-> NTrytes(0, 0), enta |-> NTrytes(0, 0),
             tm |-> Trytes(0, 0), ntm |-> NTrytes(0, 0)]
NoKem == [payload |-> Trytes(0, 0), key |-> NTrytes(KEY_SIZE, 0), pkid |-> 0, sk |-> 0,
          seed |-> 0, nonce |-> 0]
CmdIdle ==
    [pc |-> "idle", k |-> 1, test |-> "trint3", x |-> Trint3(0), t |-> NoTrytes, kem |-> NoKem,
     s |-> SizeofNew, s2 |-> SizeofNew, buf_size |-> 0, buf_size2 |-> 0,
     w |-> CmdWrapNew(0), u |-> CmdUnwrapNew(<<>>)]

\* ---- the state machine: sizeof, then wrap into a buffer of that size, then unwrap ----
\* ---- UserBuilder: the builder is a record of its four fields ----
None == "None"
DefaultClient == "default"
UbDefault == [id |-> None, transport |-> None, psks |-> <<>>, lean |-> FALSE]
UbNew == UbDefault

WithIdentity(b, id) == [b EXCEPT !.id = id]

Lean(b) == [b EXCEPT !.lean = TRUE]

\* mutant: the new builder starts from an empty PSK list
WithTransport_FreshPsks(b, transport) ==
    [transport |-> transport, id |-> b.id, psks |-> <<>>, lean |-> b.lean]

WithTransport(b, transport) ==
    [transport |-> transport, id |-> b.id, psks |-> b.psks, lean |-> b.lean]

\* try_default either yields the default client or fails, and the ? returns its error
WithDefaultTransport(b, ok) ==
    IF ok
    THEN [ok |-> TRUE, b |-> [transport |-> DefaultClient, id |-> b.id, psks |-> b.psks, lean |-> b.lean]]
    ELSE [ok |-> FALSE, b |-> b]

WithPsk(b, pskid, psk) == [b EXCEPT !.psks = Append(@, <<pskid, psk>>)]

\* User::new receives the four arguments as they are
UserNew(id, psks, transport, lean) == [id |-> id, psks |-> psks, transport |-> transport, lean |-> lean]
NoUser == UserNew(None, <<>>, None, FALSE)

\* mutant: a missing transport is replaced by the default client
Build_DefaultTransport(b) ==
    [err |-> "", user |-> UserNew(b.id, b.psks, IF b.transport = None THEN DefaultClient ELSE b.transport,
                                  b.lean)]

Build(b) ==
    IF b.transport = None
    THEN [err |-> "transport not specified, cannot build User without Transport", user |-> NoUser]
    ELSE [err |-> "", user |-> UserNew(b.id, b.psks, b.transport, b.lean)]

UbIdle == [pc |-> "idle", b |-> UbDefault, ops |-> <<>>, out |-> [err |-> "", user |-> NoUser]]

VARIABLES pc, i, self, store, ustore, lookup_psk, lookup_ntru_sk, sctx, wctx, un, tampered, idc, ios, cmd,
          ub

vars == <<pc, i, self, store, ustore, lookup_psk, lookup_ntru_sk, sctx, wctx, un, tampered, idc, ios, cmd,
          ub>>

\* the state of the other codecs, which Keyload leaves alone
others == <<idc, ios, cmd, ub>>

Stores == {[l \in Links |-> 9], [l \in {} |-> 9]}
PskLists == SeqsUpTo({<<id, PskOf(id)>> : id \in PskIds}, MaxPsks)
PkLists == SeqsUpTo(PkIds, MaxPks)
LookupPsks == {[id \in D |-> PskOf(id)] : D \in SUBSET PskIds}
LookupNtruSks ==
    {[id \in D |-> IF w /\ id = 1 THEN WrongSkOf(id) ELSE SkOf(id)] : D \in SUBSET PkIds, w \in BOOLEAN}

Init ==
    /\ pc = "s_head"
    /\ i = 1
    /\ self \in [link : Links, nonce : Nonces, key : Keys, psks : PskLists, ntru_pks : PkLists,
                 prng : Seeds]
    /\ store \in Stores
    /\ ustore \in Stores
    /\ lookup_psk \in LookupPsks
    /\ lookup_ntru_sk \in LookupNtruSks
    /\ sctx = SizeofNew
    /\ wctx = WrapNew(0)
    /\ un = UnwrapNew(<<>>)
    /\ tampered = FALSE
    /\ idc = IdcIdle
    /\ ios = IosIdle
    /\ cmd = CmdIdle
    /\ ub = UbIdle

inputs == <<self, store, ustore, lookup_psk, lookup_ntru_sk>>

SizeofHead ==
    /\ pc = "s_head"
    /\ sctx' = KlSizeofHead(sctx, self)
    /\ pc' = "s_psks"
    /\ i' = 1
    /\ UNCHANGED <<inputs, others, wctx, un, tampered>>

SizeofPsk ==
    /\ pc = "s_psks"
    /\ i <= Len(self.psks)
    /\ sctx' = KlSizeofPskEntry(sctx, self)
    /\ i' = i + 1
    /\ UNCHANGED <<pc, inputs, others, wctx, un, tampered>>

SizeofSkipPks ==
    /\ pc = "s_psks"
    /\ i > Len(self.psks)
    /\ sctx' = KlSizeofSkipPks(sctx, self)
    /\ pc' = "s_pks"
    /\ i' = 1
    /\ UNCHANGED <<inputs, others, wctx, un, tampered>>

SizeofPk ==
    /\ pc = "s_pks"
    /\ i <= Len(self.ntru_pks)
    /\ sctx' = KlSizeofPkEntry(sctx, self)
    /\ i' = i + 1
    /\ UNCHANGED <<pc, inputs, others, wctx, un, tampered>>

SizeofTail ==
    /\ pc = "s_pks"
    /\ i > Len(self.ntru_pks)
    /\ sctx' = KlSizeofTail(sctx, self)
    /\ pc' = "w_head"
    /\ i' = 1
    /\ UNCHANGED <<inputs, others, wctx, un, tampered>>

WrapHead ==
    /\ pc = "w_head"
    /\ wctx' = KlWrapHead(WrapNew(sctx.size), store, self)
    /\ pc' = IF wctx'.err # "" THEN "w_failed" ELSE "w_psks"
    /\ i' = 1
    /\ UNCHANGED <<inputs, others, sctx, un, tampered>>

WrapPsk ==
    /\ pc = "w_psks"
    /\ i <= Len(self.psks)
    /\ wctx' = KlWrapPskEntry(wctx, self, i)
    /\ pc' = IF wctx'.err # "" THEN "w_failed" ELSE pc
    /\ i' = i + 1
    /\ UNCHANGED <<inputs, others, sctx, un, tampered>>

WrapSkipPks ==
    /\ pc = "w_psks"
    /\ i > Len(self.psks)
    /\ wctx' = KlWrapSkipPks(wctx, self)
    /\ pc' = IF wctx'.err # "" THEN "w_failed" ELSE "w_pks"
    /\ i' = 1
    /\ UNCHANGED <<inputs, others, sctx, un, tampered>>

WrapPk ==
    /\ pc = "w_pks"
    /\ i <= Len(self.ntru_pks)
    /\ wctx' = KlWrapPkEntry(wctx, self, i)
    /\ pc' = IF wctx'.err # "" THEN "w_failed" ELSE pc
    /\ i' = i + 1
    /\ UNCHANGED <<inputs, others, sctx, un, tampered>>

WrapTail ==
    /\ pc = "w_pks"
    /\ i > Len(self.ntru_pks)
    /\ wctx' = KlWrapTail(wctx, self)
    /\ pc' = IF wctx'.err # "" THEN "w_failed" ELSE "wire"
    /\ un' = UnwrapNew(wctx'.buf)
    /\ i' = 1
    /\ UNCHANGED <<inputs, others, sctx, tampered>>

\* the wire is altered inside the masked-key region of a PSK entry
Tamper ==
    /\ pc = "wire"
    /\ ~tampered
    /\ \E j \in 1..Len(un.stream) :
          /\ un.stream[j].n = KEY_SIZE
          /\ un' = [un EXCEPT !.stream[j].v = (@ + 1) % ValMod]
    /\ tampered' = TRUE
    /\ UNCHANGED <<pc, i, inputs, others, sctx, wctx>>

UnwrapHead ==
    /\ pc = "wire"
    /\ un' = KlUnwrapHead(un, ustore)
    /\ pc' = IF un'.err # "" THEN "u_failed" ELSE "u_psks"
    /\ i' = 1
    /\ UNCHANGED <<inputs, others, sctx, wctx, tampered>>

UnwrapPsk ==
    /\ pc = "u_psks"
    /\ i <= un.repeated_psks
    /\ un' = KlUnwrapPskEntry(un, lookup_psk)
    /\ pc' = IF un'.err # "" THEN "u_failed" ELSE pc
    /\ i' = i + 1
    /\ UNCHANGED <<inputs, others, sctx, wctx, tampered>>

UnwrapSkipPks ==
    /\ pc = "u_psks"
    /\ i > un.repeated_psks
    /\ un' = KlUnwrapSkipPks(un)
    /\ pc' = IF un'.err # "" THEN "u_failed" ELSE "u_pks"
    /\ i' = 1
    /\ UNCHANGED <<inputs, others, sctx, wctx, tampered>>

UnwrapPk ==
    /\ pc = "u_pks"
    /\ i <= un.repeated_ntru_pks
    /\ un' = KlUnwrapPkEntry(un, lookup_ntru_sk)
    /\ pc' = IF un'.err # "" THEN "u_failed" ELSE pc
    /\ i' = i + 1
    /\ UNCHANGED <<inputs, others, sctx, wctx, tampered>>

UnwrapTail ==
    /\ pc = "u_pks"
    /\ i > un.repeated_ntru_pks
    /\ un' = KlUnwrapTail(un)
    /\ pc' = IF un'.err # "" THEN "u_failed" ELSE "done"
    /\ i' = 1
    /\ UNCHANGED <<inputs, others, sctx, wctx, tampered>>

Next ==
    \/ SizeofHead \/ SizeofPsk \/ SizeofSkipPks \/ SizeofPk \/ SizeofTail
    \/ WrapHead \/ WrapPsk \/ WrapSkipPks \/ WrapPk \/ WrapTail
    \/ Tamper
    \/ UnwrapHead \/ UnwrapPsk \/ UnwrapSkipPks \/ UnwrapPk \/ UnwrapTail

Spec == Init /\ [][Next]_vars

\* ---- Identifier: sizeof, wrap into a buffer of that size, optional forged tag, unwrap ----
IdValues == {1, 2}
IdSponges == {<<>>, <<<<"absorb", 1>>>>}
MaxTag == 3
IdTags == 0 .. MaxTag
Identifiers == {EdPubKey(v) : v \in IdValues} \cup {PskId(v) : v \in IdValues}

klvars == <<pc, i, self, store, ustore, lookup_psk, lookup_ntru_sk, sctx, wctx, un, tampered>>

KlIdle ==
    /\ pc = "idle"
    /\ i = 1
    /\ self = [link |-> 1, nonce |-> 5, key |-> 3, psks |-> <<>>, ntru_pks |-> <<>>, prng |-> 2]
    /\ store = [l \in {} |-> 9]
    /\ ustore = [l \in {} |-> 9]
    /\ lookup_psk = [id \in {} |-> 0]
    /\ lookup_ntru_sk = [id \in {} |-> 0]
    /\ sctx = SizeofNew
    /\ wctx = WrapNew(0)
    /\ un = UnwrapNew(<<>>)
    /\ tampered = FALSE

InitId ==
    /\ KlIdle
    /\ ub = UbIdle
    /\ \E id \in Identifiers, sp \in IdSponges, usp \in IdSponges, prev \in Identifiers \cup {IdDefault} :
          idc = [IdcIdle EXCEPT !.pc = "sizeof", !.id = id, !.sp = sp, !.usp = usp,
                                !.out = prev, !.prev = prev]
    /\ ios = IosIdle
    /\ cmd = CmdIdle

IdSizeofStep ==
    /\ idc.pc = "sizeof"
    /\ idc' = [idc EXCEPT !.pc = "wrap", !.size = IdSizeof(idc.id, SizeofNew).size]
    /\ UNCHANGED <<klvars, ios, cmd, ub>>

IdWrapStep ==
    /\ idc.pc = "wrap"
    /\ LET w == IdWrap(idc.id, [WrapNew(idc.size) EXCEPT !.spongos = idc.sp])
       IN idc' = [idc EXCEPT !.pc = IF w.err # "" THEN "failed" ELSE "wire", !.w = w,
                             !.wire = w.buf, !.u = IdUnwrapCtx(idc.usp, w.buf)]
    /\ UNCHANGED <<klvars, ios, cmd, ub>>

\* another writer's message: the tag byte on the wire unmasks to t
IdForgeTag ==
    /\ idc.pc = "wire"
    /\ ~idc.forged
    /\ \E t \in IdTags :
          idc' = [idc EXCEPT !.forged = TRUE, !.wire[1].v = Encr(idc.usp, t),
                             !.u.stream[1].v = Encr(idc.usp, t)]
    /\ UNCHANGED <<klvars, ios, cmd, ub>>

\* the unwrapper is handed a cut message: nothing, or the tag byte alone
IdTruncate ==
    /\ idc.pc = "wire"
    /\ ~idc.forged
    /\ \E n \in {0, UINT8_SIZE} :
          idc' = [idc EXCEPT !.forged = TRUE, !.wire = SubSeq(@, 1, n),
                             !.u.stream = SubSeq(@, 1, n)]
    /\ UNCHANGED <<klvars, ios, cmd, ub>>

IdUnwrapStep ==
    /\ idc.pc = "wire"
    /\ LET r == IdUnwrap(idc.out, idc.u)
       IN idc' = [idc EXCEPT !.pc = IF r.ctx.err # "" THEN "failed" ELSE "done",
                             !.u = r.ctx, !.out = r.self]
    /\ UNCHANGED <<klvars, ios, cmd, ub>>

NextId == IdSizeofStep \/ IdWrapStep \/ IdForgeTag \/ IdTruncate \/ IdUnwrapStep

SpecId == InitId /\ [][NextId]_vars

\* ---- io streams: calls of try_advance, advance and commit on one stream ----
MaxBuf == 2
MaxOps == 3

InitIo ==
    /\ KlIdle
    /\ ub = UbIdle
    /\ idc = IdcIdle
    /\ cmd = CmdIdle
    /\ \E kind \in SliceKinds \cup NoStreamKinds, len \in 0 .. MaxBuf :
          /\ kind \in NoStreamKinds => len = 0
          /\ ios = [pc |-> "run", kind |-> kind, buf |-> [k \in 1 .. len |-> k],
                    rem |-> [k \in 1 .. len |-> k], hist |-> <<>>]

IoDone(op, n, r) ==
    [ios EXCEPT !.pc = IF r.res = "panic" THEN "panicked" ELSE "run",
                !.rem = r.rem,
                !.hist = Append(@, [op |-> op, n |-> n, before |-> ios.rem, res |-> r.res,
                                    win |-> r.win, after |-> r.rem])]

IoTryAdvance ==
    /\ ios.pc = "run" /\ Len(ios.hist) < MaxOps
    /\ \E n \in 0 .. MaxBuf + 1 : ios' = IoDone("try_advance", n, TryAdvance(ios.kind, ios.rem, n))
    /\ UNCHANGED <<klvars, idc, cmd, ub>>

IoAdvance ==
    /\ ios.pc = "run" /\ Len(ios.hist) < MaxOps
    /\ \E n \in 0 .. MaxBuf + 1 : ios' = IoDone("advance", n, Advance(ios.kind, ios.rem, n))
    /\ UNCHANGED <<klvars, idc, cmd, ub>>

IoCommit ==
    /\ ios.pc = "run" /\ Len(ios.hist) < MaxOps
    /\ ios' = IoDone("commit", 0, StreamCommit(ios.kind, ios.rem))
    /\ UNCHANGED <<klvars, idc, cmd, ub>>

NextIo == IoTryAdvance \/ IoAdvance \/ IoCommit

SpecIo == InitIo /\ [][NextIo]_vars

\* ---- command tests: one iteration of a test loop of test.rs, and ntrukem_caps ----
Trint3Values == MIN_TRINT3 .. MAX_TRINT3
SizeValues == {0, 1, 13, 14, 25, 26, 27, 39, 40, 81, 9840, 9841, 9842, 19683, SIZE_MAX - 1, SIZE_MAX}
NS == {0, 3, 240, 243, 246, 483, 486, 489, 1002, 2001}
CmdContents == {2, 11}
ContentsOf(n) == IF n = 0 THEN {0} ELSE CmdContents
TrytesInputs ==
    UNION {{[n |-> n, ta |-> Trytes(n, a), nta |-> NTrytes(n, b), enta |-> NTrytes(n, c),
             tm |-> Trytes(n, d), ntm |-> NTrytes(n, e)] :
                a \in ContentsOf(n), b \in ContentsOf(n), c \in ContentsOf(n),
                d \in ContentsOf(n), e \in ContentsOf(n)} :
           n \in {k \div TRITS_PER_TRYTE : k \in NS}}

\* ntrukem_caps: the key pair and the key come from the PRNG and the nonce
PAYLOAD_TRITS == 123
KemNonces == Nonces \cup {0}
KemInputs ==
    {[payload |-> Trytes(PAYLOAD_TRITS \div TRITS_PER_TRYTE, c),
      key |-> NTrytes(KEY_SIZE, PrngGen(seed, nonce)),
      pkid |-> pkid, sk |-> SkOf(pkid), seed |-> seed, nonce |-> nonce] :
         c \in CmdContents, pkid \in PkIds, seed \in Seeds, nonce \in KemNonces}

InitCmd ==
    /\ KlIdle
    /\ ub = UbIdle
    /\ idc = IdcIdle
    /\ ios = IosIdle
    /\ \/ \E t \in Trint3Values : cmd = [CmdIdle EXCEPT !.pc = "sizeof", !.test = "trint3", !.x = Trint3(t)]
       \/ \E n \in SizeValues : cmd = [CmdIdle EXCEPT !.pc = "sizeof", !.test = "size", !.x = Size(n)]
       \/ \E t \in TrytesInputs : cmd = [CmdIdle EXCEPT !.pc = "sizeof", !.test = "trytes", !.t = t]
       \/ \E kem \in KemInputs : cmd = [CmdIdle EXCEPT !.pc = "sizeof", !.test = "ntrukem", !.kem = kem]

SizeofProgram ==
    CASE cmd.test = "trytes" -> TmSizeofProgram(cmd.t)
      [] cmd.test = "ntrukem" -> KemSizeofProgram(cmd.kem)
      [] OTHER -> AmSizeofProgram(cmd.x)
WrapProgram ==
    CASE cmd.test = "trytes" -> TmWrapProgram(cmd.t)
      [] cmd.test = "ntrukem" -> KemWrapProgram(cmd.kem)
      [] OTHER -> AmWrapProgram(cmd.x)
UnwrapProgram ==
    CASE cmd.test = "trytes" -> TmUnwrapProgram(cmd.t)
      [] cmd.test = "ntrukem" -> KemUnwrapProgram(cmd.kem)
      [] OTHER -> AmUnwrapProgram(cmd.x)
\* the buffer: Tbits::zero(6) in absorb_mask_trint3, Tbits::zero(buf_size) in the others
CmdRoom == IF cmd.test = "trint3" THEN 6 \div TRITS_PER_TRYTE ELSE cmd.s2.size

\* the next operator call of the size computations, by reference and by value
CmdSizeofOp ==
    /\ cmd.pc = "sizeof"
    /\ cmd.k <= Len(SizeofProgram)
    /\ cmd' = [cmd EXCEPT !.s = SApply(cmd.s, SizeofProgram[cmd.k]),
                          !.s2 = IF cmd.test \in {"trytes", "ntrukem"}
                                 THEN SApply(cmd.s2, SizeofProgram[cmd.k])
                                 ELSE SApplyByValue(cmd.s2, SizeofProgram[cmd.k]),
                          !.k = @ + 1]
    /\ UNCHANGED <<klvars, idc, ios, ub>>

\* get_size and the ensure!s on it; the wrap context is made over the buffer
CmdGetSize ==
    /\ cmd.pc = "sizeof"
    /\ cmd.k > Len(SizeofProgram)
    /\ LET ok == /\ cmd.s.size = cmd.s2.size
                 /\ cmd.test = "trint3" => cmd.s.size * TRITS_PER_TRYTE = 6
       IN cmd' = [cmd EXCEPT !.pc = IF ok THEN "wrap" ELSE "failed", !.k = 1,
                             !.buf_size = cmd.s2.size, !.buf_size2 = cmd.s.size,
                             !.w = CmdWrapNew(CmdRoom)]
    /\ UNCHANGED <<klvars, idc, ios, ub>>

CmdWrapOp ==
    /\ cmd.pc = "wrap"
    /\ cmd.k <= Len(WrapProgram)
    /\ LET w == WApply(cmd.w, WrapProgram[cmd.k])
       IN cmd' = [cmd EXCEPT !.w = w, !.k = @ + 1, !.pc = IF w.err # "" THEN "failed" ELSE @]
    /\ UNCHANGED <<klvars, idc, ios, ub>>

\* ensure!(ctx.stream.is_empty()); the unwrap context is made over the same buffer
CmdWrapEnd ==
    /\ cmd.pc = "wrap"
    /\ cmd.k > Len(WrapProgram)
    /\ cmd' = [cmd EXCEPT !.pc = IF cmd.w.room = 0 THEN "unwrap" ELSE "failed", !.k = 1,
                          !.u = CmdUnwrapNew(cmd.w.buf)]
    /\ UNCHANGED <<klvars, idc, ios, ub>>

CmdUnwrapOp ==
    /\ cmd.pc = "unwrap"
    /\ cmd.k <= Len(UnwrapProgram)
    /\ LET u == UApply(cmd.u, UnwrapProgram[cmd.k])
       IN cmd' = [cmd EXCEPT !.u = u, !.k = @ + 1, !.pc = IF u.err # "" THEN "failed" ELSE @]
    /\ UNCHANGED <<klvars, idc, ios, ub>>

\* the values read back, as the test compares them with the originals
CmdEqual ==
    CASE cmd.test = "trytes" ->
             /\ cmd.u.tag = cmd.w.tag
             /\ Trytes(cmd.u.a_n, cmd.u.a_v) = cmd.t.ta /\ NTrytes(cmd.t.n, cmd.u.na_v) = cmd.t.nta
             /\ Trytes(cmd.u.m_n, cmd.u.m_v) = cmd.t.tm /\ NTrytes(cmd.t.n, cmd.u.nm_v) = cmd.t.ntm
             /\ cmd.u.ents = cmd.w.ents
      [] cmd.test = "ntrukem" -> NTrytes(KEY_SIZE, cmd.u.key) = cmd.kem.key
      [] OTHER -> cmd.u.tag = cmd.w.tag /\ cmd.u.a_v = cmd.x.v /\ cmd.u.m_v = cmd.x.v

\* ensure!(ctx.stream.is_empty()) and the ensure!s on the values
CmdUnwrapEnd ==
    /\ cmd.pc = "unwrap"
    /\ cmd.k > Len(UnwrapProgram)
    /\ cmd' = [cmd EXCEPT !.pc = IF cmd.u.stream = <<>> /\ CmdEqual THEN "passed" ELSE "failed"]
    /\ UNCHANGED <<klvars, idc, ios, ub>>

NextCmd == CmdSizeofOp \/ CmdGetSize \/ CmdWrapOp \/ CmdWrapEnd \/ CmdUnwrapOp \/ CmdUnwrapEnd

SpecCmd == InitCmd /\ [][NextCmd]_vars

\* ---- properties ----
Resolvable == self.link \in DOMAIN store
UResolvable == self.link \in DOMAIN ustore
UnwrapEnded == pc \in {"done", "u_failed"}
Wrapped == pc \in {"wire", "u_psks", "u_pks", "done", "u_failed"}
Consumed == Units(wctx.buf) - Units(un.stream)
NEntries == Len(self.psks) + Len(self.ntru_pks)
\* the entries in wire order: PSK list first, then public-key list
EntryKind(k) == IF k <= Len(self.psks) THEN "psk" ELSE "pk"
EntryId(k) == IF k <= Len(self.psks) THEN self.psks[k][1] ELSE self.ntru_pks[k - Len(self.psks)]
EntryKnown(k) ==
    IF k <= Len(self.psks) THEN EntryId(k) \in DOMAIN lookup_psk ELSE EntryId(k) \in DOMAIN lookup_ntru_sk
HonestSk == \A id \in DOMAIN lookup_ntru_sk : lookup_ntru_sk[id] = SkOf(id)
NoSecret == \A k \in 1..NEntries : ~EntryKnown(k)
FirstKnown == IF NoSecret THEN NEntries + 1 ELSE CHOOSE k \in 1..NEntries :
                  EntryKnown(k) /\ \A m \in 1..(k - 1) : ~EntryKnown(m)

\* C1: with the link resolvable, the size computed by sizeof equals the units written by wrap
\* (which fills the buffer of that size exactly and does not fail) and equals the units consumed
\* by unwrap, whichever entry the unwrapper matches (or none).
C1_SizeWrapUnwrapAgree ==
    /\ pc = "w_failed" => ~Resolvable
    /\ Wrapped => wctx.room = 0 /\ Units(wctx.buf) = sctx.size
    /\ (UnwrapEnded /\ UResolvable /\ HonestSk) =>
           /\ un.err \in {"", "Key not found"}
           /\ Consumed = sctx.size
           /\ sctx.size = KlSizeof(self)

C1_Witness ==
    /\ HonestSk
    /\ pc = "done"
    /\ Len(self.psks) = 3
    /\ un.trail[2] = <<"psk", "match">>
    /\ Len(self.ntru_pks) = 2
    /\ Consumed = sctx.size

\* C2: a recipient holding the secret of any entry of the keyload (PSK or public key, at any
\* position) unwraps the untampered message successfully and recovers the wrapper's key and nonce.
C2_RecipientRecoversKey ==
    (UnwrapEnded /\ UResolvable /\ ~tampered /\ ~NoSecret /\ HonestSk) =>
        pc = "done" /\ un.key = self.key /\ un.nonce = self.nonce

C2_Witness ==
    /\ HonestSk
    /\ pc = "done"
    /\ un.trail = <<<<"psk", "miss">>, <<"psk", "miss">>, <<"pk", "match">>, <<"pk", "drop">>>>
    /\ Cardinality(DOMAIN lookup_psk) + Cardinality(DOMAIN lookup_ntru_sk) = 1
    /\ un.key = self.key
    /\ un.nonce = self.nonce

\* C3: when no lookup returns a secret for any entry, unwrap fails with "Key not found" after
\* the whole message (size(keyload) units, all entries of both lists) has been consumed; the
\* guard error is never raised earlier.
C3_KeyNotFound ==
    /\ (UnwrapEnded /\ UResolvable /\ NoSecret) =>
           /\ pc = "u_failed"
           /\ un.err = "Key not found"
           /\ un.stream = <<>>
           /\ Consumed = sctx.size
           /\ (NEntries = 0 => Consumed = LinkSize + NONCE_SIZE + 2 * SizeofSize(0))
    /\ un.err = "Key not found" =>
           /\ Len(un.trail) = NEntries
           /\ \A k \in 1..NEntries : un.trail[k] = <<EntryKind(k), "miss">>

C3_Witness ==
    /\ pc = "u_failed"
    /\ un.err = "Key not found"
    /\ NEntries = 0
    /\ Consumed = LinkSize + NONCE_SIZE + 2

\* C4: after wrap and a successful unwrap of the produced bytes, from the same sponge and link
\* store, the two contexts hold the same sponge state, whichever entry matched and however many
\* entries were dropped.
C4_SameFinalSponge ==
    (pc = "done" /\ ~tampered /\ store = ustore) =>
        un.spongos = wctx.spongos /\ Squeeze(un.spongos) = Squeeze(wctx.spongos)

C4_Witness ==
    /\ pc = "done"
    /\ ~tampered
    /\ un.trail = <<<<"psk", "miss">>, <<"psk", "match">>, <<"psk", "drop">>, <<"pk", "drop">>>>
    /\ un.spongos = wctx.spongos

\* C5: every fork(body) of Keyload sizeof, wrap and unwrap leaves the parent sponge as it was
\* before the fork (the body's sponge effects stay in the child), while the shared stream
\* advances by exactly the units of the body.
C5_ForkIsolation ==
    [][/\ SizeofPsk => sctx'.size = sctx.size + PSKID_SIZE + KEY_SIZE
       /\ SizeofPk => sctx'.size = sctx.size + PKID_SIZE + EKEY_SIZE
       /\ WrapPsk =>
              /\ wctx'.spongos = wctx.spongos
              /\ KlWrapPskBody(wctx, self, i).spongos # wctx.spongos
              /\ wctx'.buf = KlWrapPskBody(wctx, self, i).buf
              /\ Units(wctx'.buf) = Units(wctx.buf) + PSKID_SIZE + KEY_SIZE
       /\ WrapPk =>
              /\ wctx'.spongos = wctx.spongos
              /\ KlWrapPkBody(wctx, self, i).spongos # wctx.spongos
              /\ wctx'.buf = KlWrapPkBody(wctx, self, i).buf
              /\ Units(wctx'.buf) = Units(wctx.buf) + PKID_SIZE + EKEY_SIZE
       /\ (UnwrapPsk /\ ~un.key_found) =>
              /\ un'.spongos = un.spongos
              /\ KlUnwrapPskBody(un, lookup_psk).spongos # un.spongos
              /\ un'.stream = KlUnwrapPskBody(un, lookup_psk).stream
              /\ Units(un.stream) = Units(un'.stream) + PSKID_SIZE + KEY_SIZE
       /\ (UnwrapPk /\ ~un.key_found) =>
              /\ un'.spongos = un.spongos
              /\ KlUnwrapPkBody(un, lookup_ntru_sk).spongos # un.spongos
              /\ un'.stream = KlUnwrapPkBody(un, lookup_ntru_sk).stream
              /\ Units(un.stream) = Units(un'.stream) + PKID_SIZE + EKEY_SIZE
      ]_vars

C5_Witness ==
    /\ pc = "u_pks"
    /\ un.trail = <<<<"psk", "miss">>, <<"psk", "match">>>>
    /\ un.key = self.key
    /\ un.spongos = <<<<"join", ustore[self.link]>>, <<"absorb", self.nonce>>>>

\* C6: the first entry in wire order (PSK list, then public-key list) whose lookup returns a
\* secret is the one that sets the key; every later entry is only dropped: no lookup, no change
\* of the key and no change of the parent sponge.
C6_FirstMatchWins ==
  HonestSk =>
    /\ \A k \in 1..Len(un.trail) :
           un.trail[k] = <<EntryKind(k),
                           IF k < FirstKnown THEN "miss" ELSE IF k = FirstKnown THEN "match" ELSE "drop">>
    /\ Len(un.calls) = IF Len(un.trail) < FirstKnown THEN Len(un.trail) ELSE FirstKnown
    /\ un.key_found = (Len(un.trail) >= FirstKnown)
    /\ (pc \in {"u_psks", "u_pks"}) =>
           /\ un.spongos = <<<<"join", ustore[self.link]>>, <<"absorb", self.nonce>>>>
           /\ (~tampered /\ un.key_found) => un.key = self.key
           /\ ~un.key_found => un.key = 0

C6_Witness ==
    /\ HonestSk
    /\ pc = "u_pks"
    /\ i = 3
    /\ un.trail = <<<<"psk", "match">>, <<"psk", "drop">>, <<"psk", "drop">>, <<"pk", "drop">>,
                    <<"pk", "drop">>>>
    /\ Len(un.calls) = 1
    /\ Cardinality(DOMAIN lookup_psk) = 2
    /\ Cardinality(DOMAIN lookup_ntru_sk) = 2

\* C7: the lookup invocations correspond one to one, in wire order, to the entries of the two
\* lists up to and including the first match, each with the id unmasked from its entry; when
\* the k-th PSK entry is known, lookup_psk is invoked at most k times.
C7_LookupsInWireOrder ==
    /\ Len(un.calls) <= Len(un.trail) + (IF un.err = "NtruDecapFailed" THEN 1 ELSE 0)
    /\ \A k \in 1..Len(un.calls) : un.calls[k] = <<EntryKind(k), EntryId(k)>>
    /\ \A k \in 1..Len(self.psks) :
           EntryKnown(k) => Cardinality({m \in 1..Len(un.calls) : un.calls[m][1] = "psk"}) <= k
    /\ UnwrapEnded /\ un.err \in {"", "Key not found"} =>
           Len(un.calls) = (IF NoSecret THEN NEntries ELSE FirstKnown)

C7_Witness ==
    /\ pc = "done"
    /\ Len(self.psks) = 3
    /\ un.calls = <<<<"psk", self.psks[1][1]>>, <<"psk", self.psks[2][1]>>>>
    /\ un.trail[2] = <<"psk", "match">>

Has(s, tok) == \E k \in 1..Len(s) : s[k] = tok
HasValue(s, v) == Has(s, <<"absorb", v>>) \/ Has(s, <<"mask", v>>)

\* C8 as stated: when wrap completes the parent sponge has absorbed the link join, the nonce,
\* all recipient ids and, externally after the loops, the key.
C8_ParentAbsorbedIds ==
    Wrapped =>
        /\ Has(wctx.spongos, <<"join", store[self.link]>>)
        /\ Has(wctx.spongos, <<"absorb", self.nonce>>)
        /\ \A k \in 1..NEntries : HasValue(wctx.spongos, EntryId(k))
        /\ Has(wctx.spongos, <<"absorb", self.key>>)

\* C8 amended: when wrap completes the parent sponge has absorbed the link join, the nonce and,
\* externally after the loops, the key, and was committed; the recipient ids are masked inside
\* the per-entry forks and leave no trace in the parent sponge.
C8_ParentAbsorbedJoinNonceKey ==
    Wrapped =>
        /\ wctx.spongos = <<<<"join", store[self.link]>>, <<"absorb", self.nonce>>,
                            <<"absorb", self.key>>, <<"commit", 0>>>>
        /\ \A k \in 1..NEntries : ~HasValue(wctx.spongos, EntryId(k))

C8_Witness ==
    /\ pc = "wire"
    /\ Len(self.psks) >= 1
    /\ Len(self.ntru_pks) >= 1
    /\ Has(wctx.spongos, <<"absorb", self.key>>)
    /\ ~HasValue(wctx.spongos, self.psks[1][1])

Perms(n) == {p \in [1..n -> 1..n] : \A a, b \in 1..n : a # b => p[a] # p[b]}
Distinct(seq) == \A a, b \in 1..Len(seq) : a # b => seq[a] # seq[b]
Reordered(p, q) ==
    [self EXCEPT !.psks = [k \in 1..Len(self.psks) |-> self.psks[p[k]]],
                 !.ntru_pks = [k \in 1..Len(self.ntru_pks) |-> self.ntru_pks[q[k]]]]
NoLookup == [id \in {} |-> 0]
\* every single recipient of the keyload unwraps chunks to the key
AllRecover(chunks, key) ==
    /\ \A k \in 1..Len(self.psks) :
           LET r == KlUnwrap(chunks, store, [id \in {self.psks[k][1]} |-> self.psks[k][2]], NoLookup)
           IN r.err = "" /\ r.key = key
    /\ \A k \in 1..Len(self.ntru_pks) :
           LET r == KlUnwrap(chunks, store, NoLookup, [id \in {self.ntru_pks[k]} |-> SkOf(id)])
           IN r.err = "" /\ r.key = key

\* C9: two wraps that differ only in the order of distinct recipients inside the PSK list or
\* inside the public-key list write different wire bytes, and every recipient recovers the
\* same key from either message.
C9_ReorderKeepsKey ==
    (pc = "wire" /\ ~tampered /\ Distinct(self.psks) /\ Distinct(self.ntru_pks)) =>
        /\ AllRecover(wctx.buf, self.key)
        /\ \A p \in Perms(Len(self.psks)), q \in Perms(Len(self.ntru_pks)) :
               Reordered(p, q) # self =>
                   /\ KlWrap(Reordered(p, q), store).err = ""
                   /\ KlWrap(Reordered(p, q), store).buf # wctx.buf
                   /\ AllRecover(KlWrap(Reordered(p, q), store).buf, self.key)

C9_Witness ==
    /\ pc = "wire"
    /\ ~tampered
    /\ Len(self.psks) = 2
    /\ Len(self.ntru_pks) = 2
    /\ Distinct(self.psks)
    /\ Distinct(self.ntru_pks)
    /\ KlWrap(Reordered(<<2, 1>>, <<2, 1>>), store).buf # wctx.buf

\* C10: for a keyload with one PSK recipient whose masked key was altered on the wire, unwrap
\* with the correct PSK succeeds, the recovered key is not the wrapper's key and the final
\* unwrap sponge is not the wrapper's final sponge.
C10_TamperedKeyGoesUnnoticed ==
    (UnwrapEnded /\ tampered /\ UResolvable /\ Len(self.psks) = 1 /\ EntryKnown(1)) =>
        /\ pc = "done"
        /\ un.err = ""
        /\ un.key # self.key
        /\ un.spongos # wctx.spongos

C10_Witness ==
    /\ pc = "done"
    /\ tampered
    /\ Len(self.psks) = 1
    /\ un.trail[1] = <<"psk", "match">>
    /\ un.key # self.key
    /\ un.spongos # wctx.spongos

\* C11: unwrap of a keyload whose link is not in the unwrapper's link store fails with
\* LinkNotFound when only the link has been read: the nonce is not read and no lookup is invoked.
C11_LinkNotFound ==
    /\ (Wrapped /\ pc # "wire" /\ ~UResolvable) =>
           /\ pc = "u_failed"
           /\ un.err = "LinkNotFound"
           /\ un.link = self.link
           /\ Consumed = LinkSize
           /\ un.nonce = 0
           /\ un.spongos = <<>>
           /\ un.calls = <<>>
           /\ un.trail = <<>>
    /\ un.err = "LinkNotFound" => ~UResolvable

C11_Witness ==
    /\ pc = "u_failed"
    /\ un.err = "LinkNotFound"
    /\ Len(self.psks) >= 1
    /\ EntryKnown(1)
    /\ un.calls = <<>>
    /\ Consumed = LinkSize

\* the first entry in wire order for which a lookup returns a secret is a public-key entry whose
\* returned secret key does not decapsulate it
DecapFails ==
    /\ ~NoSecret
    /\ FirstKnown > Len(self.psks)
    /\ lookup_ntru_sk[EntryId(FirstKnown)] # SkOf(EntryId(FirstKnown))
UnitsThrough(k) ==
    LinkSize + NONCE_SIZE + SizeofSize(Len(self.psks)) + Len(self.psks) * (PSKID_SIZE + KEY_SIZE)
    + SizeofSize(Len(self.ntru_pks)) + (k - Len(self.psks)) * (PKID_SIZE + EKEY_SIZE)

\* C12: wrap and unwrap stop at the first error and run no operator after it; when
\* lookup_ntru_sk returns a secret key whose decapsulation fails, unwrap fails with that error at
\* that entry: no later entry is read or looked up, even one that would have matched.
C12_FirstErrorAborts ==
    /\ wctx.err # "" => pc = "w_failed"
    /\ un.err # "" => pc = "u_failed"
    /\ pc \in {"w_failed", "u_failed"} => ~ENABLED Next
    /\ (UnwrapEnded /\ UResolvable /\ DecapFails) =>
           /\ pc = "u_failed"
           /\ un.err = "NtruDecapFailed"
           /\ ~un.key_found
           /\ un.key = 0
           /\ Len(un.calls) = FirstKnown
           /\ Len(un.trail) = FirstKnown - 1
           /\ Consumed = UnitsThrough(FirstKnown)
           /\ un.spongos = <<<<"join", ustore[self.link]>>, <<"absorb", self.nonce>>>>
    /\ un.err = "NtruDecapFailed" => DecapFails

C12_Witness ==
    /\ pc = "u_failed"
    /\ un.err = "NtruDecapFailed"
    /\ self.ntru_pks = <<1, 2>>
    /\ lookup_ntru_sk = [id \in {1, 2} |-> IF id = 1 THEN WrongSkOf(1) ELSE SkOf(2)]
    /\ un.calls[Len(un.calls)] = <<"pk", 1>>
    /\ Units(un.stream) = PKID_SIZE + EKEY_SIZE

\* ---- Identifier properties ----
IdEnded == idc.pc \in {"done", "failed"}
IdTagOnWire == Decr(idc.usp, idc.wire[1].v)
IdRead == Units(idc.wire) - Units(idc.u.stream)
IdBodySize(id) == IF id.tag = "EdPubKey" THEN PK_SIZE ELSE PSKID_BYTES
IdTagOf(id) == IF id.tag = "EdPubKey" THEN 0 ELSE 1

\* C14: Identifier unwrap fails with BadOneof for every unmasked tag other than 0 and 1 (the
\* reserved tag 2 included) and then reads only the tag byte, no variant body; for tag 0 it reads
\* a public key and returns EdPubKey, for tag 1 it reads a PskId and returns PskId.
\* (The message has its tag byte, and the body where one is read.)
C14_BadOneof ==
    (IdEnded /\ idc.wire # <<>>) =>
        /\ IdTagOnWire \notin {0, 1} =>
               /\ idc.pc = "failed" /\ idc.u.err = "BadOneof"
               /\ idc.u.oneof = IdTagOnWire
               /\ IdRead = UINT8_SIZE
               /\ idc.u.pk = 0 /\ idc.u.pskid = 0
               /\ idc.u.spongos = SpMask(idc.usp, IdTagOnWire)
               /\ idc.out = idc.prev
        /\ (IdTagOnWire = 0 /\ Units(idc.wire) >= UINT8_SIZE + PK_SIZE) =>
               /\ idc.pc = "done" /\ idc.out = EdPubKey(idc.u.pk)
               /\ IdRead = UINT8_SIZE + PK_SIZE /\ idc.u.pskid = 0
        /\ (IdTagOnWire = 1 /\ Units(idc.wire) >= UINT8_SIZE + PSKID_BYTES) =>
               /\ idc.pc = "done" /\ idc.out = PskId(idc.u.pskid)
               /\ IdRead = UINT8_SIZE + PSKID_BYTES /\ idc.u.pk = 0
        /\ idc.u.err = "BadOneof" => IdTagOnWire \notin {0, 1}

C14_Witness ==
    /\ idc.pc = "failed" /\ idc.u.err = "BadOneof"
    /\ idc.id.tag = "PskId" /\ idc.forged /\ idc.usp = idc.sp
    /\ IdTagOnWire = 2
    /\ Units(idc.u.stream) = PSKID_BYTES

\* C15: for every Identifier, sizeof, wrap and unwrap apply mask(tag) (0 for EdPubKey, 1 for
\* PskId) then mask(body): the size computed = the bytes written = the bytes read, and unwrap of
\* the wrapped bytes from the same starting sponge yields the original Identifier.
C15_IdRoundTrip ==
    /\ idc.pc \notin {"idle", "sizeof"} => idc.size = UINT8_SIZE + IdBodySize(idc.id)
    /\ idc.pc \notin {"idle", "sizeof", "wrap"} =>
           /\ idc.w.err = "" /\ idc.w.room = 0 /\ Units(idc.w.buf) = idc.size
           /\ idc.w.buf = <<Chunk(UINT8_SIZE, Encr(idc.sp, IdTagOf(idc.id))),
                            Chunk(IdBodySize(idc.id),
                                  Encr(SpMask(idc.sp, IdTagOf(idc.id)), idc.id.v))>>
           /\ idc.w.spongos = SpMask(SpMask(idc.sp, IdTagOf(idc.id)), idc.id.v)
    /\ (IdEnded /\ idc.usp = idc.sp /\ idc.wire = idc.w.buf) =>
           /\ idc.pc = "done"
           /\ idc.out = idc.id
           /\ IdRead = idc.size /\ idc.u.stream = <<>>
           /\ idc.u.spongos = idc.w.spongos

C15_Witness ==
    /\ idc.pc = "done" /\ ~idc.forged
    /\ idc.id = PskId(2) /\ idc.out = idc.id
    /\ idc.sp # <<>> /\ idc.usp = idc.sp
    /\ idc.size = UINT8_SIZE + PSKID_BYTES /\ idc.u.stream = <<>>

\* ---- io stream properties ----
IoCalls(op) == {k \in DOMAIN ios.hist : ios.hist[k].op = op}

\* C16: on TbitSliceMut and TbitSlice try_advance(n) fails iff fewer than n units remain; a
\* request for exactly the remaining size succeeds, and so does every try_advance(0).
C16_ShortBufferIff ==
    ios.kind \in SliceKinds =>
        \A k \in IoCalls("try_advance") :
            LET c == ios.hist[k]
            IN /\ c.res \in {"ok", "err"}
               /\ c.res = "err" <=> Len(c.before) < c.n
               /\ c.n = Len(c.before) => c.res = "ok" /\ c.after = <<>>
               /\ c.n = 0 => c.res = "ok"
               /\ c.res = "ok" => c.win \o c.after = c.before /\ Len(c.win) = c.n
               /\ c.res = "err" => c.after = c.before /\ c.win = <<>>

C16_Witness ==
    /\ ios.kind = "TbitSliceMut" /\ Len(ios.buf) = 2 /\ Len(ios.hist) = 3
    /\ ios.hist[1].op = "try_advance" /\ ios.hist[1].n = 3 /\ ios.hist[1].res = "err"
    /\ ios.hist[2].op = "try_advance" /\ ios.hist[2].n = 2 /\ ios.hist[2].res = "ok"
    /\ ios.hist[3].op = "try_advance" /\ ios.hist[3].n = 0 /\ ios.hist[3].res = "ok"

\* C17: commit() on TbitSliceMut, TbitSlice, NoOStream and NoIStream never fails and changes
\* nothing: called any number of times, anywhere between try_advance calls, it leaves the
\* stream's remaining window and contents as they were.
C17_CommitIsNoOp ==
    /\ \A k \in IoCalls("commit") :
           /\ ios.hist[k].res = "ok"
           /\ ios.hist[k].after = ios.hist[k].before
    /\ \A k \in DOMAIN ios.hist :
           /\ k > 1 => ios.hist[k].before = ios.hist[k - 1].after
           /\ k = Len(ios.hist) => ios.rem = ios.hist[k].after
    /\ \A j, k \in IoCalls("try_advance") :
           (j < k /\ \A m \in j + 1 .. k - 1 : m \in IoCalls("commit")) =>
               ios.hist[k].before = ios.hist[j].after

C17_Witness ==
    /\ ios.kind = "TbitSlice" /\ Len(ios.buf) = 2 /\ Len(ios.hist) = 3
    /\ ios.hist[1].op = "try_advance" /\ ios.hist[1].n = 1 /\ ios.hist[1].res = "ok"
    /\ ios.hist[2].op = "commit"
    /\ ios.hist[3].op = "try_advance" /\ ios.hist[3].n = 1 /\ ios.hist[3].win = <<2>>

\* C18: try_advance on NoOStream and NoIStream fails for every n, n = 0 included, and their
\* panicking advance never returns a slice.
C18_NoStreamAlwaysFails ==
    ios.kind \in NoStreamKinds =>
        /\ \A k \in IoCalls("try_advance") : ios.hist[k].res = "err" /\ ios.hist[k].win = <<>>
        /\ \A k \in IoCalls("advance") :
               /\ ios.hist[k].res = "panic" /\ ios.hist[k].win = <<>>
               /\ k = Len(ios.hist) /\ ios.pc = "panicked"
        /\ ios.pc = "panicked" => ~ENABLED NextIo

C18_Witness ==
    /\ ios.kind = "NoIStream" /\ Len(ios.hist) = 3
    /\ ios.hist[1].op = "try_advance" /\ ios.hist[1].n = 0 /\ ios.hist[1].res = "err"
    /\ ios.hist[2].op = "try_advance" /\ ios.hist[2].n = 1 /\ ios.hist[2].res = "err"
    /\ ios.hist[3].op = "advance" /\ ios.hist[3].n = 0 /\ ios.pc = "panicked"

\* ---- command test properties ----
CmdSized == cmd.pc \in {"wrap", "unwrap", "passed"}
CmdWrapped == cmd.pc \in {"unwrap", "passed"}
CmdUnwrapped == (cmd.pc = "unwrap" /\ cmd.k > Len(UnwrapProgram)) \/ cmd.pc = "passed"

C20_RoundTrip ==
    /\ cmd.u.err = ""
    /\ CmdUnwrapped => /\ CmdEqual
                       /\ cmd.u.spongos = cmd.w.spongos
    /\ (cmd.pc = "unwrap" /\ cmd.k > 1) =>
           cmd.u.spongos = SubSeq(cmd.w.spongos, 1, Len(cmd.u.spongos))
    /\ cmd.pc # "failed"

C20_Witness ==
    /\ cmd.pc = "passed" /\ cmd.test = "trytes" /\ cmd.t.n = 81
    /\ cmd.t.ta.v = 2 /\ cmd.t.tm.v = 11 /\ cmd.t.ntm.v = 2
    /\ cmd.u.a_n = 81 /\ cmd.u.a_v = 2 /\ cmd.u.m_v = 11 /\ cmd.u.nm_v = 2
    /\ cmd.u.tag = cmd.w.tag /\ cmd.u.ents = cmd.w.ents
    /\ \E j \in DOMAIN cmd.w.buf : cmd.w.buf[j] = Chunk(81, cmd.w.ents)

\* the branch the entry of this step took: the last element of the trail
LastBranch(u) == u.trail[Len(u.trail)]
EntryTaken == Len(un'.trail) = Len(un.trail) + 1

\* C27: every PSK entry that unwrap completes advances the input by exactly PSKID_SIZE + KEY_SIZE
\* and every public-key entry by exactly PKID_SIZE + EKEY_SIZE, in each of the three branches
\* (matched, looked up and missed inside the fork, dropped because the key was already found),
\* and these are the units wrap writes for the entry.
C27_EntryAdvance ==
    [][/\ (UnwrapPsk /\ un'.err = "") =>
              /\ EntryTaken
              /\ LastBranch(un') \in {<<"psk", "match">>, <<"psk", "miss">>, <<"psk", "drop">>}
              /\ (LastBranch(un')[2] = "drop") = un.key_found
              /\ Units(un.stream) - Units(un'.stream) = PSKID_SIZE + KEY_SIZE
       /\ (UnwrapPk /\ un'.err = "") =>
              /\ EntryTaken
              /\ LastBranch(un') \in {<<"pk", "match">>, <<"pk", "miss">>, <<"pk", "drop">>}
              /\ (LastBranch(un')[2] = "drop") = un.key_found
              /\ Units(un.stream) - Units(un'.stream) = PKID_SIZE + EKEY_SIZE
       /\ (WrapPsk /\ wctx'.err = "") => Units(wctx'.buf) - Units(wctx.buf) = PSKID_SIZE + KEY_SIZE
       /\ (WrapPk /\ wctx'.err = "") => Units(wctx'.buf) - Units(wctx.buf) = PKID_SIZE + EKEY_SIZE
      ]_vars

C27_Witness ==
    /\ pc = "done"
    /\ un.trail = <<<<"psk", "miss">>, <<"psk", "match">>, <<"psk", "drop">>,
                    <<"pk", "drop">>, <<"pk", "drop">>>>
    /\ Consumed = Units(wctx.buf)

\* the chunk an entry step of wrap writes first: the id field
IdChunk == wctx'.buf[Len(wctx.buf) + 1]
LastCall(u) == u.calls[Len(u.calls)]

C29_KeyFoundOnce ==
    [][/\ un.key_found => (un'.key_found /\ un'.key = un.key)
       /\ un'.key # un.key =>
              /\ ~un.key_found /\ un'.key_found
              /\ LastBranch(un')[2] = "match"
              /\ \A k \in 1..(Len(un'.trail) - 1) : un'.trail[k][2] = "miss"
       /\ ~un'.key_found => un'.key = UnwrapNew(<<>>).key
       /\ un'.err = "Key not found" => (~un'.key_found /\ un'.key = UnwrapNew(<<>>).key)
      ]_vars

C29_Witness ==
    /\ pc = "done"
    /\ un.trail = <<<<"psk", "miss">>, <<"pk", "match">>, <<"pk", "drop">>>>
    /\ un.key_found
    /\ un.key = self.key
    /\ un.key # UnwrapNew(<<>>).key

PskMatched(u) == \E k \in 1..Len(u.trail) : u.trail[k] = <<"psk", "match">>
PskFirst(seq) == \A j, k \in 1..Len(seq) : (j < k /\ seq[k][1] = "psk") => seq[j][1] = "psk"
PskTaken(u) == Cardinality({k \in 1..Len(u.trail) : u.trail[k][1] = "psk"})

\* C30: unwrap processes the whole PSK list before it reads the public-key count: every PSK
\* entry and PSK lookup precedes every public-key entry and lookup, and while the PSK loop runs
\* the count is still unread. If a PSK entry matched, lookup_ntru_sk is never invoked and every
\* public-key entry is dropped, even when the unwrapper holds a matching secret key.
C30_PskPrecedence ==
    /\ PskFirst(un.trail) /\ PskFirst(un.calls)
    /\ pc = "u_psks" =>
           /\ un.repeated_ntru_pks = UnwrapNew(<<>>).repeated_ntru_pks
           /\ PskTaken(un) = Len(un.trail)
    /\ pc \in {"u_pks", "done"} => PskTaken(un) = un.repeated_psks
    /\ PskMatched(un) =>
           /\ \A k \in 1..Len(un.calls) : un.calls[k][1] = "psk"
           /\ \A k \in 1..Len(un.trail) : un.trail[k][1] = "pk" => un.trail[k][2] = "drop"

C30_Witness ==
    /\ pc = "done"
    /\ un.trail = <<<<"psk", "miss">>, <<"psk", "match">>, <<"pk", "drop">>, <<"pk", "drop">>>>
    /\ Len(un.calls) = 2
    /\ self.ntru_pks[1] \in DOMAIN lookup_ntru_sk
    /\ un.repeated_ntru_pks = 2

\* ---- UserBuilder: every sequence of builder operations, then build ----
MaxBuilderOps == 4
UbIdentities == {"alice", "bob"}
UbTransports == {"bucket"}
UbPsks == {<<id, PskOf(id)>> : id \in PskIds}

InitUb ==
    /\ KlIdle
    /\ idc = IdcIdle
    /\ ios = IosIdle
    /\ cmd = CmdIdle
    /\ ub = [UbIdle EXCEPT !.pc = "building", !.b = UbNew]

UbCanCall == ub.pc = "building" /\ Len(ub.ops) < MaxBuilderOps
UbCalled(op, arg, b) == [ub EXCEPT !.b = b, !.ops = Append(@, <<op, arg>>)]

UbWithIdentity ==
    /\ UbCanCall
    /\ \E id \in UbIdentities : ub' = UbCalled("with_identity", id, WithIdentity(ub.b, id))
    /\ UNCHANGED <<klvars, idc, ios, cmd>>

UbLean ==
    /\ UbCanCall
    /\ ub' = UbCalled("lean", None, Lean(ub.b))
    /\ UNCHANGED <<klvars, idc, ios, cmd>>

UbWithTransport ==
    /\ UbCanCall
    /\ \E t \in UbTransports : ub' = UbCalled("with_transport", t, WithTransport(ub.b, t))
    /\ UNCHANGED <<klvars, idc, ios, cmd>>

UbWithDefaultTransport ==
    /\ UbCanCall
    /\ \E ok \in BOOLEAN :
          LET r == WithDefaultTransport(ub.b, ok)
          IN ub' = [UbCalled("with_default_transport", ok, r.b) EXCEPT
                        !.pc = IF r.ok THEN "building" ELSE "failed",
                        !.out = IF r.ok THEN @ ELSE [err |-> "try_default", user |-> NoUser]]
    /\ UNCHANGED <<klvars, idc, ios, cmd>>

UbWithPsk ==
    /\ UbCanCall
    /\ \E p \in UbPsks : ub' = UbCalled("with_psk", p, WithPsk(ub.b, p[1], p[2]))
    /\ UNCHANGED <<klvars, idc, ios, cmd>>

UbBuild ==
    /\ ub.pc = "building"
    /\ ub' = [ub EXCEPT !.pc = "built", !.out = Build(ub.b)]
    /\ UNCHANGED <<klvars, idc, ios, cmd>>

NextUb == UbWithIdentity \/ UbLean \/ UbWithTransport \/ UbWithDefaultTransport \/ UbWithPsk \/ UbBuild

SpecUb == InitUb /\ [][NextUb]_vars

UbBuilt == ub.pc = "built"
IsWithPsk(o) == o[1] = "with_psk"
IsTransportOp(o) == o[1] \in {"with_transport", "with_default_transport"}
\* the arguments of the with_psk calls so far, in call order
PskArgs == [k \in 1..Len(SelectSeq(ub.ops, IsWithPsk)) |-> SelectSeq(ub.ops, IsWithPsk)[k][2]]
TransportOps == SelectSeq(ub.ops, IsTransportOp)

\* C24 (as claimed): build returns an error when no identity was supplied.
C24_BuildErrsWithoutIdentity ==
    (UbBuilt /\ ub.b.id = None) => ub.out.err # ""

C26_PsksInCallOrder ==
    /\ ub.b.psks = PskArgs
    /\ (UbBuilt /\ ub.out.err = "") => ub.out.user.psks = PskArgs

C26_Witness ==
    /\ UbBuilt
    /\ ub.out.err = ""
    /\ Len(ub.ops) = MaxBuilderOps
    /\ ub.ops[2][1] = "with_transport"
    /\ ub.out.user.psks = <<<<2, PskOf(2)>>, <<1, PskOf(1)>>, <<2, PskOf(2)>>>>

\* ---- Keyload and the command tests side by side: the operators both use ----
InitKlCmd == Init \/ InitCmd
NextKlCmd == Next \/ NextCmd
SpecKlCmd == InitKlCmd /\ [][NextKlCmd]_vars

IsExternal(o) == o.op \in {"absorb_ext", "squeeze_ext"}
\* the sponge after an External operator call: the same function of the sponge before on both sides
ExternalDelta(s, o) == IF o.op = "absorb_ext" THEN SpAbsorb(s, o.val.v) ELSE SpSqueeze(s, o.n)
PskChild(s, pskid, psk) == SpCommit(SpAbsorb(SpMask(s, pskid), psk))

\* C21: absorb(External(x)) and squeeze(External(out)) add nothing to the computed size, write
\* nothing on wrap and read nothing on unwrap, and leave in the wrap and in the unwrap context
\* the same function of the sponge before; the outputs squeezed afterwards agree. In Keyload the
\* psk absorbed inside a PSK entry and the key absorbed after the loops put no units on the wire,
\* and the key masked after the psk is recovered with the same psk on the other side.
C21_ExternalNoUnits ==
    [][/\ (CmdSizeofOp /\ IsExternal(SizeofProgram[cmd.k])) =>
              cmd'.s.size = cmd.s.size /\ cmd'.s2.size = cmd.s2.size
       /\ (CmdWrapOp /\ IsExternal(WrapProgram[cmd.k])) =>
              /\ cmd'.w.err = ""
              /\ cmd'.w.buf = cmd.w.buf /\ cmd'.w.room = cmd.w.room
              /\ cmd'.w.spongos = ExternalDelta(cmd.w.spongos, WrapProgram[cmd.k])
       /\ (CmdUnwrapOp /\ IsExternal(UnwrapProgram[cmd.k])) =>
              /\ cmd'.u.err = ""
              /\ cmd'.u.stream = cmd.u.stream
              /\ cmd'.u.spongos = ExternalDelta(cmd.u.spongos, WrapProgram[cmd.k])
       /\ (CmdUnwrapEnd /\ cmd.test = "trytes") =>
              /\ cmd'.pc = "passed"
              /\ cmd.u.ents = cmd.w.ents /\ cmd.u.tag = cmd.w.tag
       /\ SizeofTail => sctx'.size = sctx.size
       /\ WrapTail =>
              /\ wctx'.err = ""
              /\ wctx'.buf = wctx.buf /\ wctx'.room = wctx.room
              /\ wctx'.spongos = SpCommit(SpAbsorb(wctx.spongos, self.key))
       /\ (UnwrapTail /\ un.key_found) =>
              /\ un'.err = ""
              /\ un'.stream = un.stream
              /\ un'.spongos = SpCommit(SpAbsorb(un.spongos, un.key))
       /\ SizeofPsk => sctx'.size = sctx.size + PSKID_SIZE + KEY_SIZE
       /\ WrapPsk =>
              /\ Units(wctx'.buf) = Units(wctx.buf) + PSKID_SIZE + KEY_SIZE
              /\ wctx'.buf[Len(wctx'.buf)] =
                     Chunk(KEY_SIZE, Encr(PskChild(wctx.spongos, self.psks[i][1], self.psks[i][2]),
                                          self.key))
       /\ (UnwrapPsk /\ ~un.key_found /\ un'.key_found) =>
              /\ Units(un.stream) = Units(un'.stream) + PSKID_SIZE + KEY_SIZE
              /\ un'.key = Decr(PskChild(un.spongos, un'.pskid, lookup_psk[un'.pskid]),
                                ReadUnits(DropUnits(un.stream, PSKID_SIZE), KEY_SIZE))
              /\ ~tampered => un'.key = self.key
      ]_vars

C21_Witness ==
    /\ cmd.pc = "passed" /\ cmd.test = "trytes" /\ cmd.t.n = 81 /\ cmd.t.enta.v = 11
    /\ \E j \in DOMAIN cmd.w.spongos : cmd.w.spongos[j] = <<"absorb", 11>> /\ cmd.u.spongos[j] = <<"absorb", 11>>
    /\ cmd.t.ta.v = 2 /\ cmd.t.nta.v = 2 /\ cmd.t.tm.v = 2 /\ cmd.t.ntm.v = 2
    /\ \A j \in DOMAIN cmd.w.buf : cmd.w.buf[j].v # 11
    /\ Units(cmd.w.buf) = cmd.buf_size
    /\ cmd.u.ents = cmd.w.ents /\ cmd.u.tag = cmd.w.tag

\* C22: in ntrukem_caps, for every key pair and key, the size computed for absorb, commit,
\* ntrukem is the payload's units plus EKEY_SIZE, wrap under (pk, prng, nonce) fills the buffer
\* exactly with the encapsulation in its last EKEY_SIZE units, and unwrap under sk after the same
\* operators consumes it all and yields the encapsulated key; in Keyload a public-key entry
\* matched with the recipient's secret key yields the wrapper's key.
C22_NtrukemRoundTrip ==
    /\ cmd.test = "ntrukem" =>
           /\ cmd.pc # "failed" /\ cmd.w.err = "" /\ cmd.u.err = ""
           /\ CmdSized => cmd.buf_size = Units(Fields(cmd.kem.payload)) + EKEY_SIZE
           /\ CmdWrapped =>
                  /\ cmd.w.room = 0
                  /\ cmd.w.buf[Len(cmd.w.buf)] =
                         Chunk(EKEY_SIZE, Encaps(cmd.kem.pkid, cmd.kem.key.v,
                                                 PrngGen(cmd.kem.seed, cmd.kem.nonce)))
           /\ CmdUnwrapped =>
                  /\ cmd.u.stream = <<>>
                  /\ NTrytes(KEY_SIZE, cmd.u.key) = cmd.kem.key
                  /\ cmd.u.spongos = cmd.w.spongos
    /\ \A k \in 1..Len(un.trail) : un.trail[k] = <<"pk", "match">> =>
           /\ un.err = "" /\ un.key_found
           /\ un.key = self.key
           /\ Units(wctx.buf) = sctx.size

C22_Witness ==
    /\ cmd.pc = "passed" /\ cmd.test = "ntrukem"
    /\ cmd.kem.pkid = 2 /\ cmd.kem.nonce = 6
    /\ cmd.u.key = PrngGen(2, 6)
    /\ cmd.buf_size = 1 + 2 + 41 + EKEY_SIZE
    /\ cmd.u.stream = <<>>

SizeofEnded == pc \notin {"idle", "s_head", "s_psks", "s_pks"}
\* the size of a Keyload as a function of the link and of the lengths of the two lists
SizeOfLists(npsks, npks) ==
    LinkSize + NONCE_SIZE + SizeofSize(npsks) + npsks * (PSKID_SIZE + KEY_SIZE)
        + SizeofSize(npks) + npks * (PKID_SIZE + EKEY_SIZE)

\* C31: Keyload sizeof joins against an empty store, not the caller's: whatever the caller's
\* store holds, the size it computes is the same function of the message alone (the link, the
\* nonce, the key and the two lists), and it is computed also when wrap of the same message
\* then fails with LinkNotFound because the caller's store does not hold the link.
C31_SizeofIgnoresStore ==
    /\ SizeofEnded =>
           /\ sctx.size = SizeOfLists(Len(self.psks), Len(self.ntru_pks))
           /\ sctx.size = KlSizeof(self)
    /\ pc = "w_failed" =>
           /\ ~Resolvable
           /\ wctx.err = "LinkNotFound"
           /\ sctx.size = KlSizeof(self) /\ sctx.size >= LinkSize + NONCE_SIZE + 2
    /\ (pc = "w_psks" /\ i = 1) => Resolvable

C31_Witness ==
    /\ pc = "w_failed"
    /\ self.link \notin DOMAIN store
    /\ Len(self.psks) = 2 /\ Len(self.ntru_pks) = 1
    /\ sctx.size = LinkSize + NONCE_SIZE + 2 + 2 * (PSKID_SIZE + KEY_SIZE) + 2 + (PKID_SIZE + EKEY_SIZE)

\* the units handed out by the calls so far
RECURSIVE IoAdvanced(_)
IoAdvanced(hist) ==
    IF hist = <<>> THEN 0 ELSE Len(hist[Len(hist)].win) + IoAdvanced(SubSeq(hist, 1, Len(hist) - 1))
IoLast == ios'.hist[Len(ios'.hist)]

\* C32: on TbitSliceMut and TbitSlice a successful try_advance(n) returns a window of exactly n
\* units and leaves n units fewer; a failed one leaves the stream as it was, so that every request
\* that fitted before still succeeds after it; no call ever makes the remaining size grow, and
\* the units handed out plus the units remaining are always the initial buffer.
C32_AdvanceAccounting ==
    [][(ios.kind \in SliceKinds /\ ios' # ios) =>
           /\ Len(ios'.rem) <= Len(ios.rem)
           /\ IoAdvanced(ios'.hist) + Len(ios'.rem) = Len(ios.buf)
           /\ IoAdvanced(ios'.hist) <= Len(ios.buf)
           /\ IoTryAdvance =>
                  /\ IoLast.res = "ok" =>
                         /\ Len(IoLast.win) = IoLast.n
                         /\ IoLast.win = SubSeq(ios.rem, 1, IoLast.n)
                         /\ Len(ios'.rem) = Len(ios.rem) - IoLast.n
                  /\ IoLast.res = "err" =>
                         /\ ios'.rem = ios.rem
                         /\ \A m \in 0 .. Len(ios.rem) : SliceTryAdvance(ios'.rem, m).res = "ok"
      ]_vars

C32_Witness ==
    /\ ios.kind = "TbitSlice" /\ Len(ios.buf) = 2 /\ Len(ios.hist) = 3
    /\ ios.hist[1].op = "try_advance" /\ ios.hist[1].n = 1 /\ ios.hist[1].res = "ok"
    /\ ios.hist[2].op = "try_advance" /\ ios.hist[2].n = 2 /\ ios.hist[2].res = "err"
    /\ ios.hist[3].op = "try_advance" /\ ios.hist[3].n = 1 /\ ios.hist[3].res = "ok"
    /\ ios.rem = <<>> /\ IoAdvanced(ios.hist) = 2

\* C33: unwrap into an existing Identifier overwrites it only on success. When unwrap_new fails
\* the target keeps the value it had: with BadOneof, or with a stream error in the body, the
\* stream and the sponge have by then advanced by the tag; with a stream error on the tag itself
\* nothing was read.
C33_TargetKeptOnError ==
    IdEnded =>
        /\ idc.u.err = "" => (idc.pc = "done" /\ idc.out = idc.u.id)
        /\ idc.u.err # "" =>
               /\ idc.pc = "failed"
               /\ idc.out = idc.prev
               /\ idc.u.err \in {"BadOneof", "ShortBuffer"}
               /\ idc.wire # <<>> =>
                      /\ IdRead = UINT8_SIZE
                      /\ idc.u.spongos = SpMask(idc.usp, IdTagOnWire)
               /\ idc.wire = <<>> =>
                      /\ idc.u.err = "ShortBuffer"
                      /\ IdRead = 0 /\ idc.u.spongos = idc.usp

C33_Witness ==
    /\ idc.pc = "failed" /\ idc.u.err = "BadOneof"
    /\ idc.id = EdPubKey(1)
    /\ idc.prev = PskId(2) /\ idc.out = PskId(2)
    /\ IdRead = UINT8_SIZE
    /\ idc.u.spongos = SpMask(idc.usp, 3)

====
